---- MODULE Spec2Model ----
(***************************************************************************)
(* Solar-Analysis calculation core: per-record derivation, filtering,      *)
(* aggregation by day / month / hour, the summary and the advanced         *)
(* analytics (cost, emissions, self-sufficiency, storage, peak shaving).   *)
(*                                                                         *)
(* Energy quantities are integers (a fixed unit of energy); every JS       *)
(* division is a rational [num, den] in lowest terms, with den = 0 for the *)
(* IEEE results of a division by zero (0/0 = NaN, x/0 = +-Infinity).       *)
(* A date "YYYY-MM-DD" is the tuple <<year, month, day>>; the empty string *)
(* is the empty tuple, and string comparison is lexicographic comparison.  *)
(* A SolarDataPoint keeps the fields some operation reads (date, hour,     *)
(* month, year, isWeekend, solarProduction, energyDemand and the three     *)
(* derived fields); an optional field that is undefined is absent from the *)
(* record's DOMAIN.                                                        *)
(***************************************************************************)
EXTENDS Integers, Sequences, FiniteSets, TLC

\* the calculation core: the collection of points, and the call in progress
VARIABLES data, call

\* the dashboard: the state of the page (page.tsx 24-26), the FilterPanel it
\* renders (its onFilterChange prop and its selections, filter-panel.tsx
\* 37-42) and the FilterOptions passed in the last call of onFilterChange
VARIABLES rawData, filteredData, summary, panel, passed

dashboard == <<rawData, filteredData, summary, panel, passed>>

vars == <<data, call, rawData, filteredData, summary, panel, passed>>

(***************************************************************************)
(* Bounds of the model.                                                    *)
(***************************************************************************)
MaxLen == 2
MaxVal == 2

(***************************************************************************)
(* Numbers.                                                                *)
(***************************************************************************)
Abs(x) == IF x < 0 THEN -x ELSE x

Sign(x) == IF x < 0 THEN -1 ELSE IF x > 0 THEN 1 ELSE 0

Max(a, b) == IF a >= b THEN a ELSE b

Min(a, b) == IF a <= b THEN a ELSE b

RECURSIVE GCD(_, _)
GCD(a, b) == IF b = 0 THEN a ELSE GCD(b, a % b)

\* n / d as JS evaluates it on exact values: lowest terms, d = 0 gives NaN
\* (num 0) or +-Infinity (num +-1).
Rat(n, d) ==
  IF d = 0 THEN [num |-> Sign(n), den |-> 0]
  ELSE LET g == GCD(Abs(n), Abs(d))
           s == Sign(d)
       IN [num |-> (s * n) \div g, den |-> (s * d) \div g]

ToRat(n) == [num |-> n, den |-> 1]

Zero == ToRat(0)

NaN == [num |-> 0, den |-> 0]

IsFinite(q) == q.den # 0

RatAdd(p, q) == Rat(p.num * q.den + q.num * p.den, p.den * q.den)

RatSub(p, q) == Rat(p.num * q.den - q.num * p.den, p.den * q.den)

RatMul(p, q) == Rat(p.num * q.num, p.den * q.den)

RatDiv(p, q) == Rat(p.num * q.den, p.den * q.num)

\* p > q; every comparison with NaN is false
RatGt(p, q) ==
  /\ p # NaN
  /\ q # NaN
  /\ IF p.den = 0 /\ q.den = 0 THEN p.num > q.num
     ELSE IF p.den = 0 THEN p.num > 0
     ELSE IF q.den = 0 THEN q.num < 0
     ELSE p.num * q.den > q.num * p.den

RatMax(p, q) == IF p = NaN \/ q = NaN THEN NaN ELSE IF RatGt(q, p) THEN q ELSE p

RatMin(p, q) == IF p = NaN \/ q = NaN THEN NaN ELSE IF RatGt(p, q) THEN q ELSE p

\* (a / b) * 100
Percent(a, b) == RatMul(Rat(a, b), ToRat(100))

\* Math.round of a finite rational: floor(x + 1/2)
RatRound(q) == (2 * q.num + q.den) \div (2 * q.den)

(***************************************************************************)
(* Dates.                                                                  *)
(***************************************************************************)
EmptyString == <<>>

RECURSIVE StrLess(_, _)
\* a < b on strings: lexicographic, a proper prefix is smaller
StrLess(a, b) ==
  IF b = <<>> THEN FALSE
  ELSE IF a = <<>> THEN TRUE
  ELSE IF Head(a) # Head(b) THEN Head(a) < Head(b)
  ELSE StrLess(Tail(a), Tail(b))

\* new Date(date).getTime(): increasing in calendar order
DateTime(date) == (date[1] * 12 + date[2]) * 31 + date[3]

(***************************************************************************)
(* Record model.                                                           *)
(***************************************************************************)
DerivedFields == {"netEnergy", "gridImport", "excessExport"}

\* x || 0 on an optional numeric field
OrZero(p, f) == IF f \in DOMAIN p /\ p[f] # 0 THEN p[f] ELSE 0

\* calculateDerivedMetrics without Math.abs on the import
calculateDerivedMetricsSigned(dataPoint) ==
  LET netEnergy == dataPoint.solarProduction - dataPoint.energyDemand
      gridImport == IF netEnergy < 0 THEN netEnergy ELSE 0
      excessExport == IF netEnergy > 0 THEN netEnergy ELSE 0
  IN [f \in (DOMAIN dataPoint) \cup DerivedFields |->
        CASE f = "netEnergy" -> netEnergy
          [] f = "gridImport" -> gridImport
          [] f = "excessExport" -> excessExport
          [] OTHER -> dataPoint[f]]

\* calculateDerivedMetrics with the spread written last: a field the point
\* already has wins over the computed one
calculateDerivedMetricsSpreadLast(dataPoint) ==
  LET netEnergy == dataPoint.solarProduction - dataPoint.energyDemand
      gridImport == IF netEnergy < 0 THEN Abs(netEnergy) ELSE 0
      excessExport == IF netEnergy > 0 THEN netEnergy ELSE 0
  IN [f \in (DOMAIN dataPoint) \cup DerivedFields |->
        CASE f \in DOMAIN dataPoint -> dataPoint[f]
          [] f = "netEnergy" -> netEnergy
          [] f = "gridImport" -> gridImport
          [] OTHER -> excessExport]

calculateDerivedMetrics(dataPoint) ==
  LET netEnergy == dataPoint.solarProduction - dataPoint.energyDemand
      gridImport == IF netEnergy < 0 THEN Abs(netEnergy) ELSE 0
      excessExport == IF netEnergy > 0 THEN netEnergy ELSE 0
  IN [f \in (DOMAIN dataPoint) \cup DerivedFields |->
        CASE f = "netEnergy" -> netEnergy
          [] f = "gridImport" -> gridImport
          [] f = "excessExport" -> excessExport
          [] OTHER -> dataPoint[f]]

(***************************************************************************)
(* Sequences.                                                              *)
(***************************************************************************)
Front(s) == SubSeq(s, 1, Len(s) - 1)

Last(s) == s[Len(s)]

\* list.includes(x)
Includes(list, x) == \E i \in 1..Len(list) : list[i] = x

\* Array.prototype.sort with comparator Cmp: a stable sort, an element goes
\* after those that compare smaller and after the equal ones that precede it
SortBy(Cmp(_, _), s) ==
  LET rank(i) == 1 + Cardinality({j \in 1..Len(s) :
                        \/ Cmp(s[j], s[i]) < 0
                        \/ (Cmp(s[j], s[i]) = 0 /\ j < i)})
  IN [k \in 1..Len(s) |-> s[CHOOSE i \in 1..Len(s) : rank(i) = k]]

\* index of the first element of s whose field f is v, 0 when there is none
IndexOf(s, f, v) ==
  IF \E i \in 1..Len(s) : s[i][f] = v
  THEN CHOOSE i \in 1..Len(s) : s[i][f] = v /\ \A j \in 1..(i - 1) : s[j][f] # v
  ELSE 0

(***************************************************************************)
(* Filter engine.                                                          *)
(***************************************************************************)
\* filters.k && ... for a string option: undefined and '' are falsy
TruthyString(filters, k) == k \in DOMAIN filters /\ filters[k] # EmptyString

\* filters.k && ... for an array option: only undefined is falsy
TruthyList(filters, k) == k \in DOMAIN filters

\* filters.k && ... for a boolean option
TruthyFlag(filters, k) == k \in DOMAIN filters /\ filters[k]

\* filterKeeps with an exclusive end date
filterKeepsBeforeEnd(point, filters) ==
  /\ ~(TruthyString(filters, "startDate") /\ StrLess(point.date, filters.startDate))
  /\ ~(TruthyString(filters, "endDate") /\ ~StrLess(point.date, filters.endDate))
  /\ ~(/\ TruthyList(filters, "months")
       /\ Len(filters.months) > 0
       /\ ~Includes(filters.months, point.month))
  /\ ~(/\ TruthyList(filters, "hours")
       /\ Len(filters.hours) > 0
       /\ ~Includes(filters.hours, point.hour))
  /\ ~(TruthyFlag(filters, "weekdaysOnly") /\ point.isWeekend)
  /\ ~(TruthyFlag(filters, "weekendsOnly") /\ ~point.isWeekend)

\* filterKeeps with the day type as one choice: weekendsOnly is looked at only
\* when weekdaysOnly is not set
filterKeepsDayType(point, filters) ==
  /\ ~(TruthyString(filters, "startDate") /\ StrLess(point.date, filters.startDate))
  /\ ~(TruthyString(filters, "endDate") /\ StrLess(filters.endDate, point.date))
  /\ ~(/\ TruthyList(filters, "months")
       /\ Len(filters.months) > 0
       /\ ~Includes(filters.months, point.month))
  /\ ~(/\ TruthyList(filters, "hours")
       /\ Len(filters.hours) > 0
       /\ ~Includes(filters.hours, point.hour))
  /\ IF TruthyFlag(filters, "weekdaysOnly") THEN ~point.isWeekend
     ELSE ~(TruthyFlag(filters, "weekendsOnly") /\ ~point.isWeekend)

\* filterKeeps with an empty list of months or hours selecting nothing
filterKeepsEmptyList(point, filters) ==
  /\ ~(TruthyString(filters, "startDate") /\ StrLess(point.date, filters.startDate))
  /\ ~(TruthyString(filters, "endDate") /\ StrLess(filters.endDate, point.date))
  /\ ~(/\ TruthyList(filters, "months")
       /\ ~Includes(filters.months, point.month))
  /\ ~(/\ TruthyList(filters, "hours")
       /\ ~Includes(filters.hours, point.hour))
  /\ ~(TruthyFlag(filters, "weekdaysOnly") /\ point.isWeekend)
  /\ ~(TruthyFlag(filters, "weekendsOnly") /\ ~point.isWeekend)

filterKeeps(point, filters) ==
  /\ ~(TruthyString(filters, "startDate") /\ StrLess(point.date, filters.startDate))
  /\ ~(TruthyString(filters, "endDate") /\ StrLess(filters.endDate, point.date))
  /\ ~(/\ TruthyList(filters, "months")
       /\ Len(filters.months) > 0
       /\ ~Includes(filters.months, point.month))
  /\ ~(/\ TruthyList(filters, "hours")
       /\ Len(filters.hours) > 0
       /\ ~Includes(filters.hours, point.hour))
  /\ ~(TruthyFlag(filters, "weekdaysOnly") /\ point.isWeekend)
  /\ ~(TruthyFlag(filters, "weekendsOnly") /\ ~point.isWeekend)

RECURSIVE filterData(_, _)
filterData(d, filters) ==
  IF d = <<>> THEN <<>>
  ELSE LET rest == filterData(Front(d), filters)
       IN IF filterKeeps(Last(d), filters) THEN Append(rest, Last(d)) ELSE rest

(***************************************************************************)
(* Aggregation engine.                                                     *)
(***************************************************************************)
\* the four running sums every aggregate adds a point to
AddPoint(entry, point) ==
  [entry EXCEPT !.solarProduction = @ + point.solarProduction,
                !.energyDemand = @ + point.energyDemand,
                !.gridImport = @ + OrZero(point, "gridImport"),
                !.excessExport = @ + OrZero(point, "excessExport")]

NewDaily(date) ==
  [date |-> date, solarProduction |-> 0, energyDemand |-> 0, netEnergy |-> 0,
   gridImport |-> 0, excessExport |-> 0]

RECURSIVE dailyMapOverwrite(_)
\* dailyMap that sets a fresh entry for a date it has seen instead of adding
dailyMapOverwrite(d) ==
  IF d = <<>> THEN <<>>
  ELSE LET acc == dailyMapOverwrite(Front(d))
           point == Last(d)
           i == IndexOf(acc, "date", point.date)
       IN IF i = 0 THEN Append(acc, AddPoint(NewDaily(point.date), point))
          ELSE [acc EXCEPT ![i] = AddPoint(NewDaily(point.date), point)]

RECURSIVE dailyMap(_)
\* the Map of aggregateByDay after the forEach, in insertion order
dailyMap(d) ==
  IF d = <<>> THEN <<>>
  ELSE LET acc == dailyMap(Front(d))
           point == Last(d)
           i == IndexOf(acc, "date", point.date)
       IN IF i = 0 THEN Append(acc, AddPoint(NewDaily(point.date), point))
          ELSE [acc EXCEPT ![i] = AddPoint(@, point)]

\* a comparator that leaves the days in the order of the Map
CmpDateUnsorted(a, b) == 0

CmpDate(a, b) == DateTime(a.date) - DateTime(b.date)

aggregateByDay(d) ==
  LET m == dailyMap(d)
      result == [i \in 1..Len(m) |->
                   [m[i] EXCEPT !.netEnergy = m[i].solarProduction - m[i].energyDemand]]
  IN SortBy(CmpDate, result)

NewMonthly(year, month) ==
  [year |-> year, month |-> month, solarProduction |-> 0, energyDemand |-> 0,
   netEnergy |-> 0, gridImport |-> 0, excessExport |-> 0]

\* index of the entry of the key `${year}-${month}`, 0 when there is none
IndexOfMonth(s, year, month) ==
  IF \E i \in 1..Len(s) : s[i].year = year /\ s[i].month = month
  THEN CHOOSE i \in 1..Len(s) : s[i].year = year /\ s[i].month = month
  ELSE 0

RECURSIVE monthlyMap(_)
\* the Map of aggregateByMonth after the forEach, in insertion order
monthlyMap(d) ==
  IF d = <<>> THEN <<>>
  ELSE LET acc == monthlyMap(Front(d))
           point == Last(d)
           i == IndexOfMonth(acc, point.year, point.month)
       IN IF i = 0
          THEN Append(acc, AddPoint(NewMonthly(point.year, point.month), point))
          ELSE [acc EXCEPT ![i] = AddPoint(@, point)]

\* a comparator that looks at the month alone
CmpMonthOnly(a, b) == a.month - b.month

CmpYearMonth(a, b) == IF a.year # b.year THEN a.year - b.year ELSE a.month - b.month

aggregateByMonth(d) ==
  LET m == monthlyMap(d)
      result ==
        [i \in 1..Len(m) |->
           [year |-> m[i].year,
            month |-> m[i].month,
            solarProduction |-> m[i].solarProduction,
            energyDemand |-> m[i].energyDemand,
            netEnergy |-> m[i].solarProduction - m[i].energyDemand,
            gridImport |-> m[i].gridImport,
            excessExport |-> m[i].excessExport,
            selfConsumptionPercentage |->
              IF m[i].solarProduction > 0
              THEN Percent(m[i].solarProduction - m[i].excessExport,
                           m[i].solarProduction)
              ELSE Zero,
            gridDependencyPercentage |->
              IF m[i].energyDemand > 0
              THEN Percent(m[i].gridImport, m[i].energyDemand)
              ELSE Zero]]
  IN SortBy(CmpYearMonth, result)

HoursPerDay == 24

NewHourly(hour) ==
  [hour |-> hour, solarProduction |-> 0, energyDemand |-> 0, netEnergy |-> 0,
   gridImport |-> 0, excessExport |-> 0, count |-> 0]

RECURSIVE hourlyMapSparse(_)
\* hourlyMap without the initialisation of the 24 hours: an hour gets its
\* entry with its first point
hourlyMapSparse(d) ==
  IF d = <<>> THEN <<>>
  ELSE LET acc == hourlyMapSparse(Front(d))
           point == Last(d)
           i == IndexOf(acc, "hour", point.hour)
       IN IF i = 0
          THEN Append(acc, [AddPoint(NewHourly(point.hour), point) EXCEPT !.count = 1])
          ELSE [acc EXCEPT ![i] = [AddPoint(@, point) EXCEPT !.count = @ + 1]]

RECURSIVE hourlyMap(_)
\* hourlyMap and hourCounts of aggregateByHour after the forEach
hourlyMap(d) ==
  IF d = <<>> THEN [i \in 1..HoursPerDay |-> NewHourly(i - 1)]
  ELSE LET acc == hourlyMap(Front(d))
           point == Last(d)
           i == IndexOf(acc, "hour", point.hour)
       IN [acc EXCEPT ![i] = [AddPoint(@, point) EXCEPT !.count = @ + 1]]

\* hourlyMap.get(hour)! is undefined for an hour that was never set
aggregateByHourThrows(d) ==
  \E i \in 1..Len(d) : d[i].hour \notin 0..(HoursPerDay - 1)

\* aggregateByHour dividing by the number of all records
aggregateByHourOverall(d) ==
  LET m == hourlyMap(d)
  IN [i \in 1..Len(m) |->
        LET count == IF Len(d) # 0 THEN Len(d) ELSE 1
            solar == Rat(m[i].solarProduction, count)
            demand == Rat(m[i].energyDemand, count)
        IN [hour |-> m[i].hour,
            solarProduction |-> solar,
            energyDemand |-> demand,
            gridImport |-> Rat(m[i].gridImport, count),
            excessExport |-> Rat(m[i].excessExport, count),
            netEnergy |-> RatSub(solar, demand)]]

aggregateByHour(d) ==
  LET m == hourlyMap(d)
  IN [i \in 1..Len(m) |->
        LET count == IF m[i].count # 0 THEN m[i].count ELSE 1
            solar == Rat(m[i].solarProduction, count)
            demand == Rat(m[i].energyDemand, count)
        IN [hour |-> m[i].hour,
            solarProduction |-> solar,
            energyDemand |-> demand,
            gridImport |-> Rat(m[i].gridImport, count),
            excessExport |-> Rat(m[i].excessExport, count),
            netEnergy |-> RatSub(solar, demand)]]

(***************************************************************************)
(* Summary calculator.                                                     *)
(***************************************************************************)
RECURSIVE summaryTotals(_)
\* the running totals and peaks of calculateSummary after the forEach
summaryTotals(d) ==
  IF d = <<>>
  THEN [totalSolarProduction |-> 0, totalEnergyDemand |-> 0, totalGridImport |-> 0,
        totalExcessExport |-> 0, peakSolarProduction |-> 0, peakEnergyDemand |-> 0]
  ELSE LET acc == summaryTotals(Front(d))
           point == Last(d)
       IN [totalSolarProduction |-> acc.totalSolarProduction + point.solarProduction,
           totalEnergyDemand |-> acc.totalEnergyDemand + point.energyDemand,
           totalGridImport |-> acc.totalGridImport + OrZero(point, "gridImport"),
           totalExcessExport |-> acc.totalExcessExport + OrZero(point, "excessExport"),
           peakSolarProduction |-> Max(acc.peakSolarProduction, point.solarProduction),
           peakEnergyDemand |-> Max(acc.peakEnergyDemand, point.energyDemand)]

\* dayCount as the number of records
dayCountRecords(d) == IF Len(d) # 0 THEN Len(d) ELSE 1

\* dayCount without || 1
dayCountUnguarded(d) == Cardinality({d[i].date : i \in 1..Len(d)})

\* uniqueDates.size || 1
dayCount(d) ==
  LET uniqueDates == {d[i].date : i \in 1..Len(d)}
  IN IF Cardinality(uniqueDates) # 0 THEN Cardinality(uniqueDates) ELSE 1

calculateSummary(d) ==
  LET t == summaryTotals(d)
  IN [totalSolarProduction |-> t.totalSolarProduction,
      totalEnergyDemand |-> t.totalEnergyDemand,
      totalGridImport |-> t.totalGridImport,
      totalExcessExport |-> t.totalExcessExport,
      averageDailySolarProduction |-> Rat(t.totalSolarProduction, dayCount(d)),
      averageDailyEnergyDemand |-> Rat(t.totalEnergyDemand, dayCount(d)),
      peakSolarProduction |-> t.peakSolarProduction,
      peakEnergyDemand |-> t.peakEnergyDemand,
      selfConsumptionPercentage |->
        IF t.totalSolarProduction > 0
        THEN Percent(t.totalSolarProduction - t.totalExcessExport, t.totalSolarProduction)
        ELSE Zero,
      gridDependencyPercentage |->
        IF t.totalEnergyDemand > 0
        THEN Percent(t.totalGridImport, t.totalEnergyDemand)
        ELSE Zero]

(***************************************************************************)
(* Advanced analytics engine.                                              *)
(***************************************************************************)
\* point.solarProduction - (point.excessExport || 0)
\* selfConsumed that counts the exported production too
selfConsumedWithExport(point) == point.solarProduction

selfConsumed(point) == point.solarProduction - OrZero(point, "excessExport")

RECURSIVE costTotalsFloored(_, _, _)
\* costTotals with the cost of an hour floored at 0: a credit is not counted
costTotalsFloored(d, gridImportRate, gridExportRate) ==
  IF d = <<>>
  THEN [totalGridImportCost |-> Zero, totalGridExportCredit |-> Zero,
        totalSolarSavings |-> Zero, totalCostWithoutSolar |-> Zero,
        totalCostWithSolar |-> Zero]
  ELSE LET acc == costTotalsFloored(Front(d), gridImportRate, gridExportRate)
           point == Last(d)
           costWithoutSolar == RatMul(ToRat(point.energyDemand), gridImportRate)
           gridImportCost == RatMul(ToRat(OrZero(point, "gridImport")), gridImportRate)
           gridExportCredit == RatMul(ToRat(OrZero(point, "excessExport")), gridExportRate)
           solarSavings == RatMul(ToRat(selfConsumed(point)), gridImportRate)
           costWithSolar == RatMax(Zero, RatSub(gridImportCost, gridExportCredit))
       IN [totalGridImportCost |-> RatAdd(acc.totalGridImportCost, gridImportCost),
           totalGridExportCredit |-> RatAdd(acc.totalGridExportCredit, gridExportCredit),
           totalSolarSavings |-> RatAdd(acc.totalSolarSavings, solarSavings),
           totalCostWithoutSolar |-> RatAdd(acc.totalCostWithoutSolar, costWithoutSolar),
           totalCostWithSolar |-> RatAdd(acc.totalCostWithSolar, costWithSolar)]

RECURSIVE costTotals(_, _, _)
\* the five running totals of calculateCostSavings after the forEach
costTotals(d, gridImportRate, gridExportRate) ==
  IF d = <<>>
  THEN [totalGridImportCost |-> Zero, totalGridExportCredit |-> Zero,
        totalSolarSavings |-> Zero, totalCostWithoutSolar |-> Zero,
        totalCostWithSolar |-> Zero]
  ELSE LET acc == costTotals(Front(d), gridImportRate, gridExportRate)
           point == Last(d)
           costWithoutSolar == RatMul(ToRat(point.energyDemand), gridImportRate)
           gridImportCost == RatMul(ToRat(OrZero(point, "gridImport")), gridImportRate)
           gridExportCredit == RatMul(ToRat(OrZero(point, "excessExport")), gridExportRate)
           solarSavings == RatMul(ToRat(selfConsumed(point)), gridImportRate)
           costWithSolar == RatSub(gridImportCost, gridExportCredit)
       IN [totalGridImportCost |-> RatAdd(acc.totalGridImportCost, gridImportCost),
           totalGridExportCredit |-> RatAdd(acc.totalGridExportCredit, gridExportCredit),
           totalSolarSavings |-> RatAdd(acc.totalSolarSavings, solarSavings),
           totalCostWithoutSolar |-> RatAdd(acc.totalCostWithoutSolar, costWithoutSolar),
           totalCostWithSolar |-> RatAdd(acc.totalCostWithSolar, costWithSolar)]

calculateCostSavings(d, gridImportRate, gridExportRate) ==
  LET t == costTotals(d, gridImportRate, gridExportRate)
      totalSavings == RatSub(t.totalCostWithoutSolar, t.totalCostWithSolar)
  IN [totalGridImportCost |-> t.totalGridImportCost,
      totalGridExportCredit |-> t.totalGridExportCredit,
      totalSolarSavings |-> t.totalSolarSavings,
      totalCostWithoutSolar |-> t.totalCostWithoutSolar,
      totalCostWithSolar |-> t.totalCostWithSolar,
      totalSavings |-> totalSavings,
      savingsPercentage |->
        IF RatGt(t.totalCostWithoutSolar, Zero)
        THEN RatMul(RatDiv(totalSavings, t.totalCostWithoutSolar), ToRat(100))
        ELSE Zero]

RECURSIVE emissionTotalsNetImport(_)
\* emissionTotals with the export taken off the import
emissionTotalsNetImport(d) ==
  IF d = <<>>
  THEN [totalSelfConsumedSolar |-> 0, totalGridImport |-> 0, totalEnergyDemand |-> 0]
  ELSE LET acc == emissionTotalsNetImport(Front(d))
           point == Last(d)
       IN [totalSelfConsumedSolar |-> acc.totalSelfConsumedSolar + selfConsumed(point),
           totalGridImport |->
             acc.totalGridImport + OrZero(point, "gridImport")
               - OrZero(point, "excessExport"),
           totalEnergyDemand |-> acc.totalEnergyDemand + point.energyDemand]

RECURSIVE emissionTotals(_)
emissionTotals(d) ==
  IF d = <<>>
  THEN [totalSelfConsumedSolar |-> 0, totalGridImport |-> 0, totalEnergyDemand |-> 0]
  ELSE LET acc == emissionTotals(Front(d))
           point == Last(d)
       IN [totalSelfConsumedSolar |-> acc.totalSelfConsumedSolar + selfConsumed(point),
           totalGridImport |-> acc.totalGridImport + OrZero(point, "gridImport"),
           totalEnergyDemand |-> acc.totalEnergyDemand + point.energyDemand]

\* kg of CO2 one tree takes up in a year: 21.7
KgPerTree == Rat(217, 10)

KgPerTon == ToRat(1000)

calculateEmissionsReduction(d, gridEmissionFactor) ==
  LET t == emissionTotals(d)
      emissionsWithoutSolar == RatMul(ToRat(t.totalEnergyDemand), gridEmissionFactor)
      emissionsWithSolar == RatMul(ToRat(t.totalGridImport), gridEmissionFactor)
      emissionsReduction == RatSub(emissionsWithoutSolar, emissionsWithSolar)
  IN [emissionsWithoutSolar |-> emissionsWithoutSolar,
      emissionsWithSolar |-> emissionsWithSolar,
      emissionsReduction |-> emissionsReduction,
      reductionPercentage |->
        IF RatGt(emissionsWithoutSolar, Zero)
        THEN RatMul(RatDiv(emissionsReduction, emissionsWithoutSolar), ToRat(100))
        ELSE Zero,
      emissionsReductionTons |-> RatDiv(emissionsReduction, KgPerTon),
      equivalentTreesPlanted |-> RatRound(RatDiv(emissionsReduction, KgPerTree))]

\* hourCategory without the branch of the balanced hour
hourCategoryUnbalanced(point) ==
  IF point.solarProduction = 0 THEN "noProduction"
  ELSE IF OrZero(point, "excessExport") > 0 THEN "excessProduction"
  ELSE IF OrZero(point, "gridImport") > 0 THEN "gridDependent"
  ELSE "none"

\* the category the if / else-if chain of calculateSelfSufficiency counts a
\* point in; "none" when no branch is taken
hourCategory(point) ==
  IF point.solarProduction = 0 THEN "noProduction"
  ELSE IF OrZero(point, "gridImport") = 0 /\ OrZero(point, "excessExport") = 0
    THEN "selfSufficient"
  ELSE IF OrZero(point, "excessExport") > 0 THEN "excessProduction"
  ELSE IF OrZero(point, "gridImport") > 0 THEN "gridDependent"
  ELSE "none"

RECURSIVE selfSufficiencyTotals(_)
selfSufficiencyTotals(d) ==
  IF d = <<>>
  THEN [totalSolarProduction |-> 0, totalEnergyDemand |-> 0, totalGridImport |-> 0,
        totalExcessExport |-> 0, totalSelfConsumed |-> 0, selfSufficientHours |-> 0,
        excessProductionHours |-> 0, gridDependentHours |-> 0, noProductionHours |-> 0]
  ELSE LET acc == selfSufficiencyTotals(Front(d))
           point == Last(d)
           c == hourCategory(point)
           inc(name) == IF c = name THEN 1 ELSE 0
       IN [totalSolarProduction |-> acc.totalSolarProduction + point.solarProduction,
           totalEnergyDemand |-> acc.totalEnergyDemand + point.energyDemand,
           totalGridImport |-> acc.totalGridImport + OrZero(point, "gridImport"),
           totalExcessExport |-> acc.totalExcessExport + OrZero(point, "excessExport"),
           totalSelfConsumed |-> acc.totalSelfConsumed + selfConsumed(point),
           selfSufficientHours |-> acc.selfSufficientHours + inc("selfSufficient"),
           excessProductionHours |-> acc.excessProductionHours + inc("excessProduction"),
           gridDependentHours |-> acc.gridDependentHours + inc("gridDependent"),
           noProductionHours |-> acc.noProductionHours + inc("noProduction")]

calculateSelfSufficiency(d) ==
  LET t == selfSufficiencyTotals(d)
  IN [totalSelfConsumed |-> t.totalSelfConsumed,
      selfSufficiencyPercentage |->
        IF t.totalEnergyDemand > 0
        THEN Percent(t.totalSelfConsumed, t.totalEnergyDemand) ELSE Zero,
      selfConsumptionPercentage |->
        IF t.totalSolarProduction > 0
        THEN Percent(t.totalSelfConsumed, t.totalSolarProduction) ELSE Zero,
      gridDependencyPercentage |->
        IF t.totalEnergyDemand > 0
        THEN Percent(t.totalGridImport, t.totalEnergyDemand) ELSE Zero,
      selfSufficientHours |-> t.selfSufficientHours,
      excessProductionHours |-> t.excessProductionHours,
      gridDependentHours |-> t.gridDependentHours,
      noProductionHours |-> t.noProductionHours,
      hoursCounted |-> Len(d)]

RECURSIVE dailyData(_)
\* the dailyData object of calculateStoragePotential and calculatePeakShaving:
\* the points of each date, the dates in the order of their first point
dailyData(d) ==
  IF d = <<>> THEN <<>>
  ELSE LET acc == dailyData(Front(d))
           point == Last(d)
           i == IndexOf(acc, "date", point.date)
       IN IF i = 0 THEN Append(acc, [date |-> point.date, points |-> <<point>>])
          ELSE [acc EXCEPT ![i].points = Append(@, point)]

\* a comparator that puts the latest hour first
CmpHourDesc(a, b) == b.hour - a.hour

\* a comparator that leaves the points of a date in the order of the input
CmpHourUnsorted(a, b) == 0

CmpHour(a, b) == a.hour - b.hour

RECURSIVE storageDayUnchecked(_)
\* storageDay discharging the whole deficit whatever the storage level
storageDayUnchecked(dayPoints) ==
  IF dayPoints = <<>>
  THEN [dailyExcess |-> 0, dailyDeficit |-> 0, dailyStorageLevel |-> 0,
        dailyAdditionalSelfConsumption |-> 0, maxStorageNeeded |-> 0]
  ELSE LET acc == storageDayUnchecked(Front(dayPoints))
           point == Last(dayPoints)
           excess == OrZero(point, "excessExport")
           deficit == OrZero(point, "gridImport")
           energyFromStorage == IF ~(excess > 0) /\ deficit > 0 THEN deficit ELSE 0
           level == IF excess > 0 THEN acc.dailyStorageLevel + excess
                    ELSE acc.dailyStorageLevel - energyFromStorage
       IN [dailyExcess |-> acc.dailyExcess + excess,
           dailyDeficit |-> acc.dailyDeficit + deficit,
           dailyStorageLevel |-> level,
           dailyAdditionalSelfConsumption |->
             acc.dailyAdditionalSelfConsumption + energyFromStorage,
           maxStorageNeeded |-> Max(acc.maxStorageNeeded, level)]

RECURSIVE storageDay(_)
\* the walk of calculateStoragePotential over one date's sorted points
storageDay(dayPoints) ==
  IF dayPoints = <<>>
  THEN [dailyExcess |-> 0, dailyDeficit |-> 0, dailyStorageLevel |-> 0,
        dailyAdditionalSelfConsumption |-> 0, maxStorageNeeded |-> 0]
  ELSE LET acc == storageDay(Front(dayPoints))
           point == Last(dayPoints)
           excess == OrZero(point, "excessExport")
           deficit == OrZero(point, "gridImport")
           discharging == ~(excess > 0) /\ deficit > 0 /\ acc.dailyStorageLevel > 0
           energyFromStorage ==
             IF discharging THEN Min(acc.dailyStorageLevel, deficit) ELSE 0
           level == IF excess > 0 THEN acc.dailyStorageLevel + excess
                    ELSE acc.dailyStorageLevel - energyFromStorage
       IN [dailyExcess |-> acc.dailyExcess + excess,
           dailyDeficit |-> acc.dailyDeficit + deficit,
           dailyStorageLevel |-> level,
           dailyAdditionalSelfConsumption |->
             acc.dailyAdditionalSelfConsumption + energyFromStorage,
           maxStorageNeeded |-> Max(acc.maxStorageNeeded, level)]

RECURSIVE sortedPointsOfAll(_)
\* the sorted points of the dates one after the other
sortedPointsOfAll(days) ==
  IF days = <<>> THEN <<>>
  ELSE sortedPointsOfAll(Front(days)) \o SortBy(CmpHour, Last(days).points)

\* storageTotals of one walk over all dates: the storage level of a date is
\* carried into the next one
storageTotalsCarryOver(days) ==
  LET walk == storageDay(sortedPointsOfAll(days))
  IN [totalExcessEnergy |-> walk.dailyExcess,
      totalDeficitEnergy |-> walk.dailyDeficit,
      potentialAdditionalSelfConsumption |-> walk.dailyAdditionalSelfConsumption,
      optimalStorageCapacity |-> walk.maxStorageNeeded]

RECURSIVE storageTotalsSummed(_)
\* storageTotals adding up the storage the dates need
storageTotalsSummed(days) ==
  IF days = <<>>
  THEN [totalExcessEnergy |-> 0, totalDeficitEnergy |-> 0,
        potentialAdditionalSelfConsumption |-> 0, optimalStorageCapacity |-> 0]
  ELSE LET acc == storageTotalsSummed(Front(days))
           day == storageDay(SortBy(CmpHour, Last(days).points))
       IN [totalExcessEnergy |-> acc.totalExcessEnergy + day.dailyExcess,
           totalDeficitEnergy |-> acc.totalDeficitEnergy + day.dailyDeficit,
           potentialAdditionalSelfConsumption |->
             acc.potentialAdditionalSelfConsumption + day.dailyAdditionalSelfConsumption,
           optimalStorageCapacity |->
             acc.optimalStorageCapacity + day.maxStorageNeeded]

RECURSIVE storageTotals(_)
\* the totals of calculateStoragePotential after the loop over the dates
storageTotals(days) ==
  IF days = <<>>
  THEN [totalExcessEnergy |-> 0, totalDeficitEnergy |-> 0,
        potentialAdditionalSelfConsumption |-> 0, optimalStorageCapacity |-> 0]
  ELSE LET acc == storageTotals(Front(days))
           day == storageDay(SortBy(CmpHour, Last(days).points))
       IN [totalExcessEnergy |-> acc.totalExcessEnergy + day.dailyExcess,
           totalDeficitEnergy |-> acc.totalDeficitEnergy + day.dailyDeficit,
           potentialAdditionalSelfConsumption |->
             acc.potentialAdditionalSelfConsumption + day.dailyAdditionalSelfConsumption,
           optimalStorageCapacity |->
             Max(acc.optimalStorageCapacity, day.maxStorageNeeded)]

RECURSIVE sumEnergyDemand(_)
\* data.reduce((sum, point) => sum + point.energyDemand, 0)
sumEnergyDemand(d) ==
  IF d = <<>> THEN 0 ELSE sumEnergyDemand(Front(d)) + Last(d).energyDemand

RECURSIVE sumSelfConsumed(_)
\* data.reduce((sum, point) => sum + selfConsumed, 0)
sumSelfConsumed(d) ==
  IF d = <<>> THEN 0 ELSE sumSelfConsumed(Front(d)) + selfConsumed(Last(d))

calculateStoragePotential(d) ==
  LET t == storageTotals(dailyData(d))
      totalEnergyDemand == sumEnergyDemand(d)
      currentSelfConsumed == sumSelfConsumed(d)
      currentSelfSufficiency ==
        IF totalEnergyDemand > 0
        THEN Percent(currentSelfConsumed, totalEnergyDemand) ELSE Zero
      potentialSelfSufficiency ==
        IF totalEnergyDemand > 0
        THEN Percent(currentSelfConsumed + t.potentialAdditionalSelfConsumption,
                     totalEnergyDemand)
        ELSE Zero
  IN [totalExcessEnergy |-> t.totalExcessEnergy,
      totalDeficitEnergy |-> t.totalDeficitEnergy,
      potentialAdditionalSelfConsumption |-> t.potentialAdditionalSelfConsumption,
      optimalStorageCapacity |-> t.optimalStorageCapacity,
      currentSelfSufficiency |-> currentSelfSufficiency,
      potentialSelfSufficiency |-> potentialSelfSufficiency,
      selfSufficiencyImprovement |->
        RatSub(potentialSelfSufficiency, currentSelfSufficiency),
      storageUtilizationRate |->
        IF t.totalExcessEnergy > 0
        THEN Percent(t.potentialAdditionalSelfConsumption, t.totalExcessEnergy)
        ELSE Zero]

\* a point is a high demand point above 0.7 of the date's peak demand
HighDemandFactor == Rat(7, 10)

\* a comparator that puts the lowest demand first
CmpDemandAsc(a, b) == a.energyDemand - b.energyDemand

CmpDemandDesc(a, b) == b.energyDemand - a.energyDemand

RECURSIVE shaveDayFromThreshold(_, _, _, _)
\* shaveDay that also discharges for a demand of exactly 0.7 of the peak
shaveDayFromThreshold(dayPoints, peakDemand, storageCapacity, maxDischargeRate) ==
  IF dayPoints = <<>>
  THEN [storageLevel |-> storageCapacity, modifiedDemand |-> <<>>]
  ELSE LET acc == shaveDayFromThreshold(Front(dayPoints), peakDemand, storageCapacity,
                           maxDischargeRate)
           point == Last(dayPoints)
           highDemand ==
             /\ ~RatGt(RatMul(ToRat(peakDemand), HighDemandFactor),
                       ToRat(point.energyDemand))
             /\ acc.storageLevel > 0
           dischargeNeeded ==
             Min(Min(point.energyDemand - selfConsumed(point), maxDischargeRate),
                 acc.storageLevel)
           discharges == highDemand /\ dischargeNeeded > 0
       IN [storageLevel |->
             IF discharges THEN acc.storageLevel - dischargeNeeded
             ELSE acc.storageLevel,
           modifiedDemand |->
             Append(acc.modifiedDemand,
                    IF discharges
                    THEN [f \in (DOMAIN point) \cup {"gridImport"} |->
                            IF f = "gridImport"
                            THEN Max(0, OrZero(point, "gridImport") - dischargeNeeded)
                            ELSE point[f]]
                    ELSE point)]

RECURSIVE shaveDayAddsDischarge(_, _, _, _)
\* shaveDay that adds the discharge to the import
shaveDayAddsDischarge(dayPoints, peakDemand, storageCapacity, maxDischargeRate) ==
  IF dayPoints = <<>>
  THEN [storageLevel |-> storageCapacity, modifiedDemand |-> <<>>]
  ELSE LET acc == shaveDayAddsDischarge(Front(dayPoints), peakDemand, storageCapacity,
                           maxDischargeRate)
           point == Last(dayPoints)
           highDemand ==
             /\ RatGt(ToRat(point.energyDemand),
                      RatMul(ToRat(peakDemand), HighDemandFactor))
             /\ acc.storageLevel > 0
           dischargeNeeded ==
             Min(Min(point.energyDemand - selfConsumed(point), maxDischargeRate),
                 acc.storageLevel)
           discharges == highDemand /\ dischargeNeeded > 0
       IN [storageLevel |->
             IF discharges THEN acc.storageLevel - dischargeNeeded
             ELSE acc.storageLevel,
           modifiedDemand |->
             Append(acc.modifiedDemand,
                    IF discharges
                    THEN [f \in (DOMAIN point) \cup {"gridImport"} |->
                            IF f = "gridImport"
                            THEN Max(0, OrZero(point, "gridImport") + dischargeNeeded)
                            ELSE point[f]]
                    ELSE point)]

RECURSIVE shaveDay(_, _, _, _)
\* the map of calculatePeakShaving over one date's sorted points: the storage
\* level left and the modified points
shaveDay(dayPoints, peakDemand, storageCapacity, maxDischargeRate) ==
  IF dayPoints = <<>>
  THEN [storageLevel |-> storageCapacity, modifiedDemand |-> <<>>]
  ELSE LET acc == shaveDay(Front(dayPoints), peakDemand, storageCapacity,
                           maxDischargeRate)
           point == Last(dayPoints)
           highDemand ==
             /\ RatGt(ToRat(point.energyDemand),
                      RatMul(ToRat(peakDemand), HighDemandFactor))
             /\ acc.storageLevel > 0
           dischargeNeeded ==
             Min(Min(point.energyDemand - selfConsumed(point), maxDischargeRate),
                 acc.storageLevel)
           discharges == highDemand /\ dischargeNeeded > 0
       IN [storageLevel |->
             IF discharges THEN acc.storageLevel - dischargeNeeded
             ELSE acc.storageLevel,
           modifiedDemand |->
             Append(acc.modifiedDemand,
                    IF discharges
                    THEN [f \in (DOMAIN point) \cup {"gridImport"} |->
                            IF f = "gridImport"
                            THEN Max(0, OrZero(point, "gridImport") - dischargeNeeded)
                            ELSE point[f]]
                    ELSE point)]

RECURSIVE maxEnergyDemand(_)
\* the greatest energyDemand of a date's points in place of the greatest
\* gridImport
maxEnergyDemand(points) ==
  IF Len(points) = 1 THEN points[1].energyDemand
  ELSE Max(maxEnergyDemand(Front(points)), Last(points).energyDemand)

RECURSIVE maxGridImport(_)
\* Math.max(...modifiedDemand.map(p => (p.gridImport || 0))) of a date's
\* points, of which there is at least one
maxGridImport(points) ==
  IF Len(points) = 1 THEN OrZero(points[1], "gridImport")
  ELSE Max(maxGridImport(Front(points)), OrZero(Last(points), "gridImport"))

RECURSIVE peakTotals(_, _, _)
\* the totals of calculatePeakShaving after the loop over the dates
peakTotals(days, storageCapacity, maxDischargeRate) ==
  IF days = <<>>
  THEN [totalPeakDemand |-> 0, totalPeakDemandAfterShaving |-> 0,
        totalPeakReduction |-> 0]
  ELSE LET acc == peakTotals(Front(days), storageCapacity, maxDischargeRate)
           dayPoints == SortBy(CmpHour, Last(days).points)
           peakDemandPoint == SortBy(CmpDemandDesc, dayPoints)[1]
           peakDemand == peakDemandPoint.energyDemand
           modifiedDemand ==
             shaveDay(dayPoints, peakDemand, storageCapacity,
                      maxDischargeRate).modifiedDemand
           peakDemandAfterShaving == maxGridImport(modifiedDemand)
           peakReduction == peakDemand - peakDemandAfterShaving
       IN [totalPeakDemand |-> acc.totalPeakDemand + peakDemand,
           totalPeakDemandAfterShaving |->
             acc.totalPeakDemandAfterShaving + peakDemandAfterShaving,
           totalPeakReduction |-> acc.totalPeakReduction + peakReduction]

calculatePeakShaving(d, storageCapacity, maxDischargeRate) ==
  LET days == dailyData(d)
      t == peakTotals(days, storageCapacity, maxDischargeRate)
  IN [totalPeakDemand |-> t.totalPeakDemand,
      totalPeakDemandAfterShaving |-> t.totalPeakDemandAfterShaving,
      totalPeakReduction |-> t.totalPeakReduction,
      peakReductionPercentage |->
        IF t.totalPeakDemand > 0
        THEN Percent(t.totalPeakReduction, t.totalPeakDemand) ELSE Zero,
      recommendedStorageCapacity |-> storageCapacity,
      daysAnalyzed |-> Len(days)]

\* [...dayPoints].sort(...)[0] is undefined for a date without points, and
\* reading its energyDemand throws
calculatePeakShavingThrows(d) ==
  \E i \in 1..Len(dailyData(d)) : Len(dailyData(d)[i].points) = 0

(***************************************************************************)
(* Effects on the input. The points of the input are the objects           *)
(* 1..Len(d), held by the array data; an object or array made during a     *)
(* call is none of them.                                                   *)
(***************************************************************************)
NewObject == 0

InputArray == "data"

\* the array that dayPoints.sort reorders: dailyData[point.date], made by []
\* and filled by push
dayPoints == "dailyData[point.date]"

\* modifiedPoint pointing at the point of the input itself
modifiedPointAliased(ref) == ref

\* the object that modifiedPoint.gridImport = ... writes to when point is
\* the object ref: the copy { ...point }
modifiedPoint(ref) == NewObject

\* the points with their object as a field
withRefs(d) == [i \in 1..Len(d) |-> d[i] @@ ("ref" :> i)]

\* the gridImport that the shaving writes for the point ref
shavedGridImport(d, ref, storageCapacity, maxDischargeRate) ==
  LET points == SelectSeq(withRefs(d), LAMBDA point : point.date = d[ref].date)
      sorted == SortBy(CmpHour, points)
      peakDemand == SortBy(CmpDemandDesc, sorted)[1].energyDemand
      modifiedDemand ==
        shaveDay(sorted, peakDemand, storageCapacity, maxDischargeRate).modifiedDemand
      k == CHOOSE k \in 1..Len(modifiedDemand) : modifiedDemand[k].ref = ref
  IN OrZero(modifiedDemand[k], "gridImport")

\* the array data after dayPoints.sort
afterDaySort(d) == IF dayPoints = InputArray THEN SortBy(CmpHour, d) ELSE d

\* the input of calculateStoragePotential after the call
storagePotentialInput(d) == afterDaySort(d)

\* the input of calculatePeakShaving after the call
peakShavingInput(d, storageCapacity, maxDischargeRate) ==
  afterDaySort(
    [ref \in 1..Len(d) |->
       IF modifiedPoint(ref) = ref
       THEN [f \in (DOMAIN d[ref]) \cup {"gridImport"} |->
               IF f = "gridImport"
               THEN shavedGridImport(d, ref, storageCapacity, maxDischargeRate)
               ELSE d[ref][f]]
       ELSE d[ref]])

(***************************************************************************)
(* Inputs.                                                                 *)
(***************************************************************************)
\* Tuesday 2024-12-31 and Saturday 2025-01-04
Dates == {<<2024, 12, 31>>, <<2025, 1, 4>>}

WeekendDates == {<<2025, 1, 4>>, <<2025, 2, 2>>}

Hours == {10, 20}

Energy == 0..MaxVal

\* a data point as the ingestion builds it, before derivation
Point(date, hour, solar, demand) ==
  [date |-> date, hour |-> hour, month |-> date[2], year |-> date[1],
   isWeekend |-> date \in WeekendDates,
   solarProduction |-> solar, energyDemand |-> demand]

Points == {Point(date, hour, solar, demand) :
             date \in Dates, hour \in Hours, solar \in Energy, demand \in Energy}

\* a derived field of an ingested point: undefined, or a stale value
StaleValues == {-1, 0, 7}

Stale(f) == {<<>>} \cup {f :> v : v \in StaleValues}

\* points that may carry derived fields from an earlier derivation
StalePoints ==
  {Point(date, 10, solar, demand) @@ n @@ g @@ e :
     date \in Dates, solar \in Energy, demand \in Energy,
     n \in Stale("netEnergy"), g \in Stale("gridImport"), e \in Stale("excessExport")}

\* Tuesday 2024-12-31, Friday 2025-01-03 and Saturday 2025-01-04
FilterDates == {<<2024, 12, 31>>, <<2025, 1, 3>>, <<2025, 1, 4>>}

FilterPoints == {Point(date, hour, 1, 0) : date \in FilterDates, hour \in Hours}

\* an option of filterData: undefined, or one of the values vs
Option(k, vs) == {<<>>} \cup {k :> v : v \in vs}

FilterOptions ==
  {sd @@ ed @@ ms @@ hs @@ wd @@ we :
     sd \in Option("startDate", {EmptyString, <<2025, 1, 3>>}),
     ed \in Option("endDate", {EmptyString, <<2025, 1, 3>>}),
     ms \in Option("months", {<<>>, <<1>>}),
     hs \in Option("hours", {<<>>, <<10>>}),
     wd \in Option("weekdaysOnly", BOOLEAN),
     we \in Option("weekendsOnly", BOOLEAN)}

\* a December, and a February and an October of the next year
MonthDates == {<<2024, 12, 31>>, <<2025, 2, 2>>, <<2025, 10, 5>>}

MonthPoints == {Point(date, 10, solar, demand) :
                  date \in MonthDates, solar \in Energy, demand \in Energy}

\* points for the shaving simulation: no production or 1 kWh of it, which
\* covers a demand fully, partly or not at all
ShaveSolar == {0, 1}

\* the demands 0..MaxVal, and a demand of 7 kWh, which is 0.7 of one of 10
ShaveDemand == Energy \cup {7, 10}

ShavePoints == {Point(date, hour, solar, demand) :
                  date \in Dates, hour \in Hours, solar \in ShaveSolar,
                  demand \in ShaveDemand}

\* importing points of a weekday and a weekend day, of low and high demand
FramePoints == {Point(date, hour, 0, demand) :
                  date \in Dates, hour \in Hours, demand \in {1, MaxVal}}

ZeroPoints == {Point(date, hour, 0, 0) : date \in Dates, hour \in Hours}

NoCall == [op |-> "none"]

(***************************************************************************)
(* Dashboard: the page (page.tsx) keeps rawData, filteredData and summary  *)
(* and renders the FilterPanel (filter-panel.tsx) inside the dashboard.    *)
(* A FilterPanel is its onFilterChange prop and its six selections; each   *)
(* handler runs to its end on the selections of the render it was created  *)
(* in, and the component renders again before the next event.              *)
(***************************************************************************)
\* useState<DataSummary | null>(null)
null == [null |-> TRUE]

\* onFilterChange has not been called
NotCalled == [called |-> FALSE]

\* no FilterPanel is rendered
Unmounted == [onFilterChange |-> "unmounted"]

Mounted == panel # Unmounted

\* the useState initial values of FilterPanel
InitialPanel(onFilterChangeProp) ==
  [onFilterChange |-> onFilterChangeProp, timePeriod |-> "all", months |-> <<>>,
   dayType |-> "all", hourRange |-> "all",
   startDate |-> EmptyString, endDate |-> EmptyString]

\* Array.from({ length }, (_, i) => i + from)
ArrayFrom(length, from) == [i \in 1..length |-> i - 1 + from]

hourRangeOptions ==
  <<[value |-> "all", hours |-> ArrayFrom(24, 0)],
    [value |-> "daytime", hours |-> ArrayFrom(13, 6)],
    [value |-> "nighttime", hours |-> ArrayFrom(6, 18) \o ArrayFrom(6, 0)],
    [value |-> "morning", hours |-> ArrayFrom(7, 5)],
    [value |-> "afternoon", hours |-> ArrayFrom(5, 12)],
    [value |-> "evening", hours |-> ArrayFrom(4, 17)],
    [value |-> "night", hours |-> ArrayFrom(3, 21) \o ArrayFrom(5, 0)]>>

seasonOptions ==
  <<[value |-> "winter", months |-> <<12, 1, 2>>],
    [value |-> "spring", months |-> <<3, 4, 5>>],
    [value |-> "summer", months |-> <<6, 7, 8>>],
    [value |-> "fall", months |-> <<9, 10, 11>>]>>

\* options.find(o => o.value === value): the first such option, or
\* undefined, an object without properties
find(options, value) ==
  LET found == {i \in 1..Len(options) : options[i].value = value}
  IN IF found = {} THEN <<>>
     ELSE options[CHOOSE i \in found : \A j \in found : i <= j]

\* hourRangeOptions.find(h => h.value === hourRange)?.hours || []
selectedHours(hourRange) ==
  IF find(hourRangeOptions, hourRange) = <<>> THEN <<>>
  ELSE find(hourRangeOptions, hourRange).hours

\* a property of the FilterOptions object: undefined, or the value
Property(k, defined, v) == IF defined THEN k :> v ELSE <<>>

\* the FilterOptions applyFilters builds from the selections p
applyFilters(p) ==
  Property("startDate", p.startDate # EmptyString, p.startDate)
    @@ Property("endDate", p.endDate # EmptyString, p.endDate)
    @@ Property("months", Len(p.months) > 0, p.months)
    @@ Property("hours", Len(selectedHours(p.hourRange)) > 0,
                selectedHours(p.hourRange))
    @@ ("weekdaysOnly" :> (p.dayType = "weekdays"))
    @@ ("weekendsOnly" :> (p.dayType = "weekends"))

\* the selections a handler reads when it calls applyFilters after its
\* setState calls: next, the selections it has set
closureNext(p, next) == next

\* the selections a handler reads when it calls applyFilters after its
\* setState calls: p, the constants of the render that created the handler
closure(p, next) == p

\* the selections after the setState calls of each handler
setTimePeriod(p, value) ==
  [p EXCEPT !.timePeriod = value,
            !.startDate = IF value # "custom" THEN EmptyString ELSE @,
            !.endDate = IF value # "custom" THEN EmptyString ELSE @]

toggleMonth(p, monthValue) ==
  [p EXCEPT !.months =
        IF Includes(@, monthValue)
        THEN SelectSeq(@, LAMBDA m : m # monthValue)
        ELSE Append(@, monthValue)]

setSeason(p, value) ==
  [p EXCEPT !.months = IF find(seasonOptions, value) = <<>> THEN <<>>
                       ELSE find(seasonOptions, value).months]

setDayType(p, value) == [p EXCEPT !.dayType = value]

setHourRange(p, value) == [p EXCEPT !.hourRange = value]

setDate(p, type, value) ==
  IF type = "start" THEN [p EXCEPT !.startDate = value]
  ELSE [p EXCEPT !.endDate = value]

\* page.tsx 181: the dashboard, and the FilterPanel in it, is rendered
Dashboard(filtered, s) == Len(filtered) > 0 /\ s # null

\* handleFilterChange that filters what the last filter left
handleFilterChangeCompounding(fs) ==
  IF Len(rawData) = 0 THEN UNCHANGED <<rawData, filteredData, summary>>
  ELSE /\ filteredData' = filterData(filteredData, fs)
       /\ summary' = calculateSummary(filterData(filteredData, fs))
       /\ UNCHANGED rawData

\* the page's handler of a filter change
handleFilterChange(fs) ==
  IF Len(rawData) = 0 THEN UNCHANGED <<rawData, filteredData, summary>>
  ELSE /\ filteredData' = filterData(rawData, fs)
       /\ summary' = calculateSummary(filterData(rawData, fs))
       /\ UNCHANGED rawData

\* the prop of the rendered FilterPanel is called with fs: the page's
\* handler, or the mock of the component test, which records its argument
onFilterChange(fs) ==
  /\ passed' = fs
  /\ IF panel.onFilterChange = "handleFilterChange" THEN handleFilterChange(fs)
     ELSE UNCHANGED <<rawData, filteredData, summary>>

\* the render after an event of the panel: the page unmounts the panel,
\* and drops its selections, when it renders "No Data Available"
render(next) ==
  panel' = IF /\ panel.onFilterChange = "handleFilterChange"
              /\ ~Dashboard(filteredData', summary')
           THEN Unmounted
           ELSE next

\* a handler of a selection: its setState calls, then applyFilters()
Selected(next) ==
  /\ Mounted
  /\ onFilterChange(applyFilters(closure(panel, next)))
  /\ render(next)
  /\ UNCHANGED <<data, call>>

\* the values selected: all data or a custom range of dates; January;
\* all seasons or the winter; each day type; all hours or the morning;
\* no date or 2025-01-03
handleTimePeriodChange ==
  \E value \in {"all", "custom"} : Selected(setTimePeriod(panel, value))

handleMonthChange ==
  \E value \in {1} : Selected(toggleMonth(panel, value))

handleSeasonChange ==
  \E value \in {"all", "winter"} : Selected(setSeason(panel, value))

handleDayTypeChange ==
  \E value \in {"all", "weekdays", "weekends"} :
    Selected(setDayType(panel, value))

handleHourRangeChange ==
  \E value \in {"all", "morning"} : Selected(setHourRange(panel, value))

\* the two date inputs are rendered for the custom time period only
handleDateChange ==
  /\ Mounted
  /\ panel.timePeriod = "custom"
  /\ \E type \in {"start", "end"}, value \in {EmptyString, <<2025, 1, 3>>} :
       Selected(setDate(panel, type, value))

resetFilters ==
  /\ Mounted
  /\ onFilterChange(<<>>)
  /\ render(InitialPanel(panel.onFilterChange))
  /\ UNCHANGED <<data, call>>

\* Friday 2025-01-03 in the morning and at night, and Saturday 2025-01-04
\* in the morning
PagePoints ==
  {Point(<<2025, 1, 3>>, hour, 1, 0) : hour \in Hours}
    \cup {Point(<<2025, 1, 4>>, 10, 1, 0)}

\* a load of a file or of the sample, of up to MaxLen points: the page
\* derives the points and shows them all
processData ==
  /\ panel.onFilterChange # "mockOnFilterChange"
  /\ \E d \in UNION {[1..n -> PagePoints] : n \in 0..MaxLen} :
       LET dataWithCalculations ==
             [i \in 1..Len(d) |-> calculateDerivedMetrics(d[i])]
       IN /\ rawData' = dataWithCalculations
          /\ filteredData' = dataWithCalculations
          /\ summary' = calculateSummary(dataWithCalculations)
  /\ panel' = IF ~Dashboard(filteredData', summary') THEN Unmounted
              ELSE IF Mounted THEN panel
              ELSE InitialPanel("handleFilterChange")
  /\ UNCHANGED <<passed, data, call>>

(***************************************************************************)
(* State machine: the ingestion pushes derived points; an operation of the *)
(* core is called on the collection ingested so far and returns, and the   *)
(* caller drops the result before the next step.                           *)
(***************************************************************************)
Init ==
  /\ data = <<>>
  /\ call = NoCall
  /\ rawData = <<>>
  /\ filteredData = <<>>
  /\ summary = null
  /\ panel = Unmounted
  /\ passed = NotCalled

Idle == call.op = "none"

\* one turn of the loop of processRawData: a point is derived and pushed
IngestPoint ==
  /\ Idle
  /\ Len(data) < MaxLen
  /\ \E p \in Points : data' = Append(data, calculateDerivedMetrics(p))
  /\ UNCHANGED call
  /\ UNCHANGED dashboard

\* a call of op on input with args: it threw, or it returned result
Called(op, input, args, threw, result) ==
  [op |-> op, input |-> input, args |-> args, threw |-> threw, result |-> result]

\* the caller is done with the result
Return ==
  /\ ~Idle
  /\ call' = NoCall
  /\ UNCHANGED data
  /\ UNCHANGED dashboard

CallSummary ==
  /\ Idle
  /\ call' = Called("calculateSummary", data, <<>>, FALSE, calculateSummary(data))
  /\ UNCHANGED data
  /\ UNCHANGED dashboard

CallAggregateByDay ==
  /\ Idle
  /\ call' = Called("aggregateByDay", data, <<>>, FALSE, aggregateByDay(data))
  /\ UNCHANGED data
  /\ UNCHANGED dashboard

CallAggregateByMonth ==
  /\ Idle
  /\ call' = Called("aggregateByMonth", data, <<>>, FALSE, aggregateByMonth(data))
  /\ UNCHANGED data
  /\ UNCHANGED dashboard

CallAggregateByHour ==
  /\ Idle
  /\ call' = Called("aggregateByHour", data, <<>>, aggregateByHourThrows(data),
                   IF aggregateByHourThrows(data) THEN <<>>
                   ELSE aggregateByHour(data))
  /\ UNCHANGED data
  /\ UNCHANGED dashboard

\* the default rates 0.15 and 0.08, and the rates of the tests 0.20 and 0.05
Rates ==
  {<<Rat(15, 100), Rat(8, 100)>>, <<Rat(20, 100), Rat(5, 100)>>,
   <<Zero, Rat(8, 100)>>}

CallCostSavings ==
  /\ Idle
  /\ \E r \in Rates :
       call' = Called("calculateCostSavings", data, r, FALSE,
                      calculateCostSavings(data, r[1], r[2]))
  /\ UNCHANGED data
  /\ UNCHANGED dashboard

\* the default factor 0.5 and the factor of the tests 0.8
EmissionFactors == {Rat(5, 10), Rat(8, 10)}

CallEmissionsReduction ==
  /\ Idle
  /\ \E f \in EmissionFactors :
       call' = Called("calculateEmissionsReduction", data, <<f>>, FALSE,
                      calculateEmissionsReduction(data, f))
  /\ UNCHANGED data
  /\ UNCHANGED dashboard

CallSelfSufficiency ==
  /\ Idle
  /\ call' = Called("calculateSelfSufficiency", data, <<>>, FALSE,
                   calculateSelfSufficiency(data))
  /\ UNCHANGED data
  /\ UNCHANGED dashboard

CallStoragePotential ==
  /\ Idle
  /\ call' = Called("calculateStoragePotential", data, <<>>, FALSE,
                   calculateStoragePotential(data))
  /\ data' = storagePotentialInput(data)
  /\ UNCHANGED dashboard

\* storageCapacity and maxDischargeRate: the defaults 5 and 2, smaller ones,
\* no capacity and no discharge
Storages == {<<5, 2>>, <<1, 1>>, <<0, 2>>, <<5, 0>>}

CallPeakShaving ==
  /\ Idle
  /\ \E c \in Storages :
       /\ call' = Called("calculatePeakShaving", data, c,
                         calculatePeakShavingThrows(data),
                         IF calculatePeakShavingThrows(data) THEN <<>>
                         ELSE calculatePeakShaving(data, c[1], c[2]))
       /\ data' = peakShavingInput(data, c[1], c[2])
  /\ UNCHANGED dashboard

\* Aggregation engine and summary calculator
Next ==
  \/ IngestPoint
  \/ CallSummary
  \/ CallAggregateByDay
  \/ CallAggregateByMonth
  \/ CallAggregateByHour
  \/ Return

Spec == Init /\ [][Next]_vars

\* Advanced analytics engine
NextAnalytics ==
  \/ IngestPoint
  \/ CallCostSavings
  \/ CallEmissionsReduction
  \/ CallSelfSufficiency
  \/ CallStoragePotential
  \/ CallPeakShaving
  \/ Return

SpecAnalytics == Init /\ [][NextAnalytics]_vars

\* Cost savings alone
NextCost ==
  \/ IngestPoint
  \/ CallCostSavings
  \/ Return

SpecCost == Init /\ [][NextCost]_vars

\* Peak shaving alone
NextPeak ==
  \/ IngestPoint
  \/ CallPeakShaving
  \/ Return

SpecPeak == Init /\ [][NextPeak]_vars

\* Storage potential alone
NextStorage ==
  \/ IngestPoint
  \/ CallStoragePotential
  \/ Return

SpecStorage == Init /\ [][NextStorage]_vars

\* Self-sufficiency analysis alone
NextSelfSufficiency ==
  \/ IngestPoint
  \/ CallSelfSufficiency
  \/ Return

SpecSelfSufficiency == Init /\ [][NextSelfSufficiency]_vars

\* Self-sufficiency and emissions reduction of one collection
NextReduction ==
  \/ IngestPoint
  \/ CallSelfSufficiency
  \/ CallEmissionsReduction
  \/ Return

SpecReduction == Init /\ [][NextReduction]_vars

\* Record model: a point is derived, and a derived point is derived again
\* (page.tsx derives the points generateSampleData has derived)
DeriveMetrics ==
  /\ Idle
  /\ \E p \in StalePoints :
       call' = Called("calculateDerivedMetrics", p, <<>>, FALSE,
                      calculateDerivedMetrics(p))
  /\ UNCHANGED data
  /\ UNCHANGED dashboard

DeriveAgain ==
  /\ call.op = "calculateDerivedMetrics"
  /\ call.args = <<>>
  /\ call' = Called("calculateDerivedMetrics", call.result, <<"again">>, FALSE,
                   calculateDerivedMetrics(call.result))
  /\ UNCHANGED data
  /\ UNCHANGED dashboard

NextRecord ==
  \/ DeriveMetrics
  \/ DeriveAgain
  \/ Return

SpecRecord == Init /\ [][NextRecord]_vars

\* Filter engine
IngestFilterPoint ==
  /\ Idle
  /\ Len(data) < MaxLen
  /\ \E p \in FilterPoints : data' = Append(data, calculateDerivedMetrics(p))
  /\ UNCHANGED call
  /\ UNCHANGED dashboard

CallFilterData ==
  /\ Idle
  /\ \E filters \in FilterOptions :
       call' = Called("filterData", data, filters, FALSE, filterData(data, filters))
  /\ UNCHANGED data
  /\ UNCHANGED dashboard

NextFilter ==
  \/ IngestFilterPoint
  \/ CallFilterData
  \/ Return

SpecFilter == Init /\ [][NextFilter]_vars

\* Degenerate inputs: the empty collection and collections of all-zero points
IngestMonthPoint ==
  /\ Idle
  /\ Len(data) < MaxLen
  /\ \E p \in MonthPoints : data' = Append(data, calculateDerivedMetrics(p))
  /\ UNCHANGED call
  /\ UNCHANGED dashboard

\* Monthly aggregation over three months of two years
NextMonth ==
  \/ IngestMonthPoint
  \/ CallAggregateByMonth
  \/ Return

SpecMonth == Init /\ [][NextMonth]_vars

IngestShavePoint ==
  /\ Idle
  /\ Len(data) < MaxLen
  /\ \E p \in ShavePoints : data' = Append(data, calculateDerivedMetrics(p))
  /\ UNCHANGED call
  /\ UNCHANGED dashboard

\* The shaving simulation of calculatePeakShaving
NextShave ==
  \/ IngestShavePoint
  \/ CallPeakShaving
  \/ Return

SpecShave == Init /\ [][NextShave]_vars

IngestFramePoint ==
  /\ Idle
  /\ Len(data) < MaxLen
  /\ \E p \in FramePoints : data' = Append(data, calculateDerivedMetrics(p))
  /\ UNCHANGED call
  /\ UNCHANGED dashboard

\* The operations that walk, sort or filter the collection
NextFrame ==
  \/ IngestFramePoint
  \/ CallFilterData
  \/ CallAggregateByDay
  \/ CallAggregateByMonth
  \/ CallAggregateByHour
  \/ CallSummary
  \/ CallStoragePotential
  \/ CallPeakShaving
  \/ Return

SpecFrame == Init /\ [][NextFrame]_vars

IngestZeroPoint ==
  /\ Idle
  /\ Len(data) < MaxLen
  /\ \E p \in ZeroPoints : data' = Append(data, calculateDerivedMetrics(p))
  /\ UNCHANGED call
  /\ UNCHANGED dashboard

NextDegenerate ==
  \/ IngestZeroPoint
  \/ CallSummary
  \/ CallAggregateByDay
  \/ CallAggregateByMonth
  \/ CallAggregateByHour
  \/ CallCostSavings
  \/ CallEmissionsReduction
  \/ CallSelfSufficiency
  \/ CallStoragePotential
  \/ CallPeakShaving
  \/ Return

SpecDegenerate == Init /\ [][NextDegenerate]_vars

\* the component test renders a FilterPanel alone, with a mock as its prop
InitPanel ==
  /\ data = <<>>
  /\ call = NoCall
  /\ rawData = <<>>
  /\ filteredData = <<>>
  /\ summary = null
  /\ panel = InitialPanel("mockOnFilterChange")
  /\ passed = NotCalled

\* The page: loads, the day type, the hour range and the reset
NextPage ==
  \/ processData
  \/ handleDayTypeChange
  \/ handleHourRangeChange
  \/ resetFilters

SpecPage == Init /\ [][NextPage]_vars

\* The FilterPanel alone
NextPanel ==
  \/ handleTimePeriodChange
  \/ handleMonthChange
  \/ handleSeasonChange
  \/ handleDayTypeChange
  \/ handleHourRangeChange
  \/ handleDateChange
  \/ resetFilters

SpecPanel == InitPanel /\ [][NextPanel]_vars

(***************************************************************************)
(* Properties.                                                             *)
(***************************************************************************)
DerivedCall == call.op = "calculateDerivedMetrics"

\* C1: calculateDerivedMetrics returns netEnergy = solarProduction -
\* energyDemand, gridImport = max(0, -netEnergy) and excessExport =
\* max(0, netEnergy); at most one of gridImport and excessExport is nonzero,
\* and both are zero exactly when solarProduction equals energyDemand.
DerivedMetricsFormulas ==
  DerivedCall =>
    LET p == call.input
        r == call.result
    IN /\ r.netEnergy = p.solarProduction - p.energyDemand
       /\ r.gridImport = Max(0, -r.netEnergy)
       /\ r.excessExport = Max(0, r.netEnergy)
       /\ ~(r.gridImport # 0 /\ r.excessExport # 0)
       /\ (r.gridImport = 0 /\ r.excessExport = 0)
            <=> (p.solarProduction = p.energyDemand)

\* a point with a deficit is derived, replacing a stale gridImport
DerivedMetricsWitness ==
  /\ DerivedCall
  /\ call.result.gridImport > 0
  /\ call.result.excessExport = 0
  /\ "gridImport" \in DOMAIN call.input
  /\ call.input.gridImport # call.result.gridImport

FilterCall == call.op = "filterData"

\* an option constrains when it is set and not empty ('' or [])
Supplied(filters, k) == k \in DOMAIN filters /\ filters[k] # <<>>

\* the predicates the options state, each constraining only when supplied
Satisfies(point, filters) ==
  /\ Supplied(filters, "startDate") =>
       (filters.startDate = point.date \/ StrLess(filters.startDate, point.date))
  /\ Supplied(filters, "endDate") =>
       (point.date = filters.endDate \/ StrLess(point.date, filters.endDate))
  /\ Supplied(filters, "months") =>
       point.month \in {filters.months[i] : i \in 1..Len(filters.months)}
  /\ Supplied(filters, "hours") =>
       point.hour \in {filters.hours[i] : i \in 1..Len(filters.hours)}
  /\ ("weekdaysOnly" \in DOMAIN filters /\ filters.weekdaysOnly) => ~point.isWeekend
  /\ ("weekendsOnly" \in DOMAIN filters /\ filters.weekendsOnly) => point.isWeekend

\* C2: filterData returns, in input order, exactly the records that satisfy
\* every supplied predicate (date range inclusive, month in months, hour in
\* hours, weekdays only, weekends only); with no option set the result is the
\* input.
FilterReturnsTheSatisfying ==
  FilterCall =>
    /\ call.result = SelectSeq(call.input, LAMBDA point : Satisfies(point, call.args))
    /\ DOMAIN call.args = {} => call.result = call.input

\* a date range that starts and ends on one date keeps that date's points and
\* drops others
FilterWitness ==
  /\ FilterCall
  /\ Supplied(call.args, "startDate")
  /\ Supplied(call.args, "endDate")
  /\ call.result # <<>>
  /\ Len(call.result) < Len(call.input)

\* C3: filterData with weekdaysOnly = true and weekendsOnly = true returns the
\* empty collection, whatever the input and the other options.
BothDayTypesIsEmpty ==
  (/\ FilterCall
   /\ "weekdaysOnly" \in DOMAIN call.args /\ call.args.weekdaysOnly
   /\ "weekendsOnly" \in DOMAIN call.args /\ call.args.weekendsOnly)
    => call.result = <<>>

\* both flags are set on a collection with a weekday and a weekend point
BothDayTypesWitness ==
  /\ FilterCall
  /\ "weekdaysOnly" \in DOMAIN call.args /\ call.args.weekdaysOnly
  /\ "weekendsOnly" \in DOMAIN call.args /\ call.args.weekendsOnly
  /\ \E i, j \in 1..Len(call.input) :
       call.input[i].isWeekend /\ ~call.input[j].isWeekend
  /\ call.result = <<>>

HourCall == call.op = "aggregateByHour"

\* C4: for every collection of records with hour in 0..23, the empty and the
\* sparse ones included, aggregateByHour returns exactly 24 entries whose
\* hours are 0, 1, ..., 23 in ascending order.
HourlyHasEveryHour ==
  HourCall =>
    /\ ~call.threw
    /\ Len(call.result) = 24
    /\ \A i \in 1..24 : call.result[i].hour = i - 1

\* a collection with points at hour 10 only: hour 10 has an average, hour 0
\* and hour 20 have entries of zeros
HourlyWitness ==
  /\ HourCall
  /\ Len(call.input) = MaxLen
  /\ \A i \in 1..Len(call.input) : call.input[i].hour = 10
  /\ call.result[11].energyDemand # Zero
  /\ call.result[1].energyDemand = Zero
  /\ call.result[21].energyDemand = Zero

RECURSIVE SumField(_, _)
\* the sum of field f over the elements of s
SumField(s, f) == IF s = <<>> THEN 0 ELSE s[1][f] + SumField(Tail(s), f)

DayCall == call.op = "aggregateByDay"

\* C5: the sums of solarProduction, energyDemand, gridImport and excessExport
\* over the elements aggregateByDay returns are the four totals of
\* calculateSummary on the same collection.
DailySumsAreSummaryTotals ==
  DayCall =>
    LET whole == calculateSummary(call.input)
    IN /\ SumField(call.result, "solarProduction") = whole.totalSolarProduction
       /\ SumField(call.result, "energyDemand") = whole.totalEnergyDemand
       /\ SumField(call.result, "gridImport") = whole.totalGridImport
       /\ SumField(call.result, "excessExport") = whole.totalExcessExport

\* two points of one date, one importing and one exporting, give one day that
\* has both an import and an export
DailyWitness ==
  /\ DayCall
  /\ Len(call.input) = 2
  /\ Len(call.result) = 1
  /\ call.result[1].gridImport > 0
  /\ call.result[1].excessExport > 0

SelfSufficiencyCall == call.op = "calculateSelfSufficiency"

\* the number of points of s that satisfy P
CountOf(s, P(_)) == Cardinality({i \in 1..Len(s) : P(s[i])})

IsNoProduction(point) == point.solarProduction = 0

IsBalanced(point) == point.gridImport = 0 /\ point.excessExport = 0

IsSelfSufficient(point) == ~IsNoProduction(point) /\ IsBalanced(point)

IsExcessProduction(point) ==
  ~IsNoProduction(point) /\ ~IsBalanced(point) /\ point.excessExport > 0

IsGridDependent(point) ==
  /\ ~IsNoProduction(point)
  /\ ~IsBalanced(point)
  /\ ~(point.excessExport > 0)
  /\ point.gridImport > 0

HasGridImport(point) == point.gridImport > 0

\* C7: gridDependentHours is the number of records whose gridImport is
\* greater than 0, those without production included.
GridDependentCountsEveryImport ==
  SelfSufficiencyCall =>
    call.result.gridDependentHours = CountOf(call.input, HasGridImport)

\* an importing hour without production is counted as a no-production hour
\* and not as a grid-dependent hour
ImportWithoutProductionWitness ==
  /\ SelfSufficiencyCall
  /\ Len(call.input) = 1
  /\ call.input[1].solarProduction = 0
  /\ call.input[1].gridImport > 0
  /\ call.result.noProductionHours = 1
  /\ call.result.gridDependentHours = 0

AllZero(d) ==
  \A i \in 1..Len(d) : d[i].solarProduction = 0 /\ d[i].energyDemand = 0

\* every total, average, peak and percentage of the result of op is 0
ZeroResult(op, r) ==
  CASE op = "calculateSummary" ->
         /\ r.totalSolarProduction = 0 /\ r.totalEnergyDemand = 0
         /\ r.totalGridImport = 0 /\ r.totalExcessExport = 0
         /\ r.averageDailySolarProduction = Zero
         /\ r.averageDailyEnergyDemand = Zero
         /\ r.peakSolarProduction = 0 /\ r.peakEnergyDemand = 0
         /\ r.selfConsumptionPercentage = Zero
         /\ r.gridDependencyPercentage = Zero
    [] op = "aggregateByDay" ->
         \A i \in 1..Len(r) :
           /\ r[i].solarProduction = 0 /\ r[i].energyDemand = 0
           /\ r[i].netEnergy = 0 /\ r[i].gridImport = 0 /\ r[i].excessExport = 0
    [] op = "aggregateByMonth" ->
         \A i \in 1..Len(r) :
           /\ r[i].solarProduction = 0 /\ r[i].energyDemand = 0
           /\ r[i].netEnergy = 0 /\ r[i].gridImport = 0 /\ r[i].excessExport = 0
           /\ r[i].selfConsumptionPercentage = Zero
           /\ r[i].gridDependencyPercentage = Zero
    [] op = "aggregateByHour" ->
         \A i \in 1..Len(r) :
           /\ r[i].solarProduction = Zero /\ r[i].energyDemand = Zero
           /\ r[i].netEnergy = Zero /\ r[i].gridImport = Zero
           /\ r[i].excessExport = Zero
    [] op = "calculateCostSavings" ->
         /\ r.totalGridImportCost = Zero /\ r.totalGridExportCredit = Zero
         /\ r.totalSolarSavings = Zero /\ r.totalCostWithoutSolar = Zero
         /\ r.totalCostWithSolar = Zero /\ r.totalSavings = Zero
         /\ r.savingsPercentage = Zero
    [] op = "calculateEmissionsReduction" ->
         /\ r.emissionsWithoutSolar = Zero /\ r.emissionsWithSolar = Zero
         /\ r.emissionsReduction = Zero /\ r.reductionPercentage = Zero
         /\ r.emissionsReductionTons = Zero /\ r.equivalentTreesPlanted = 0
    [] op = "calculateSelfSufficiency" ->
         /\ r.totalSelfConsumed = 0
         /\ r.selfSufficiencyPercentage = Zero
         /\ r.selfConsumptionPercentage = Zero
         /\ r.gridDependencyPercentage = Zero
    [] op = "calculateStoragePotential" ->
         /\ r.totalExcessEnergy = 0 /\ r.totalDeficitEnergy = 0
         /\ r.potentialAdditionalSelfConsumption = 0
         /\ r.optimalStorageCapacity = 0
         /\ r.currentSelfSufficiency = Zero
         /\ r.potentialSelfSufficiency = Zero
         /\ r.selfSufficiencyImprovement = Zero
         /\ r.storageUtilizationRate = Zero
    [] op = "calculatePeakShaving" ->
         /\ r.totalPeakDemand = 0 /\ r.totalPeakDemandAfterShaving = 0
         /\ r.totalPeakReduction = 0 /\ r.peakReductionPercentage = Zero

\* C8: on the empty collection and on a collection of records with
\* solarProduction = energyDemand = 0, none of the nine operations fails, and
\* every total, average, peak and percentage it returns is 0.
DegenerateInputsGiveZeros ==
  (~Idle /\ AllZero(call.input)) =>
    /\ ~call.threw
    /\ ZeroResult(call.op, call.result)

\* peak shaving of two all-zero points
DegenerateWitness ==
  /\ call.op = "calculatePeakShaving"
  /\ Len(call.input) = 2
  /\ AllZero(call.input)
  /\ call.result.daysAnalyzed > 0

\* the point without its derived fields
Underived(point) == [f \in (DOMAIN point) \ DerivedFields |-> point[f]]

\* C9: calculateDerivedMetrics is idempotent and ignores prior derived
\* fields: deriving a derived point returns it unchanged, the result is that
\* of the point without its derived fields, and every other field of the
\* point is returned as it was.
DerivedMetricsIdempotent ==
  DerivedCall =>
    /\ DOMAIN call.result = (DOMAIN call.input) \cup DerivedFields
    /\ \A f \in (DOMAIN call.input) \ DerivedFields : call.result[f] = call.input[f]
    /\ call.result = calculateDerivedMetrics(Underived(call.input))
    /\ call.args = <<"again">> => call.result = call.input

\* a derived point with an export is derived again
DerivedAgainWitness ==
  /\ DerivedCall
  /\ call.args = <<"again">>
  /\ call.input.excessExport > 0
  /\ call.result.excessExport > 0

SummaryCall == call.op = "calculateSummary"

\* the greatest element of a set of numbers, 0 for the empty set
Greatest(S) == IF S = {} THEN 0 ELSE CHOOSE m \in S : \A x \in S : m >= x

\* C10: calculateSummary returns the sums of solarProduction, energyDemand,
\* gridImport and excessExport over the records, the peaks as the greatest
\* single-record solarProduction and energyDemand (0 for the empty
\* collection), and the daily averages as the totals divided by the number
\* of distinct dates, by 1 for the empty collection.
SummaryTotalsPeaksAverages ==
  SummaryCall =>
    LET d == call.input
        r == call.result
        dates == {d[i].date : i \in 1..Len(d)}
        days == IF d = <<>> THEN 1 ELSE Cardinality(dates)
    IN /\ r.totalSolarProduction = SumField(d, "solarProduction")
       /\ r.totalEnergyDemand = SumField(d, "energyDemand")
       /\ r.totalGridImport = SumField(d, "gridImport")
       /\ r.totalExcessExport = SumField(d, "excessExport")
       /\ r.peakSolarProduction = Greatest({d[i].solarProduction : i \in 1..Len(d)})
       /\ r.peakEnergyDemand = Greatest({d[i].energyDemand : i \in 1..Len(d)})
       /\ r.averageDailySolarProduction.den > 0
       /\ r.averageDailySolarProduction.num * days
            = r.totalSolarProduction * r.averageDailySolarProduction.den
       /\ r.averageDailyEnergyDemand.den > 0
       /\ r.averageDailyEnergyDemand.num * days
            = r.totalEnergyDemand * r.averageDailyEnergyDemand.den

\* two points of one date: the daily average is the total
SummaryWitness ==
  /\ SummaryCall
  /\ Len(call.input) = 2
  /\ call.input[1].date = call.input[2].date
  /\ call.result.totalSolarProduction > call.result.peakSolarProduction
  /\ call.result.averageDailySolarProduction = ToRat(call.result.totalSolarProduction)

\* the points of d of one date
OnDate(d, date) == SelectSeq(d, LAMBDA point : point.date = date)

\* C11: aggregateByDay returns one element per distinct date of the input,
\* in ascending date order whatever the order of the input, each with the
\* sums of solarProduction, energyDemand, gridImport and excessExport over
\* the records of its date and netEnergy = summed solarProduction - summed
\* energyDemand.
DailyOnePerDateSortedSums ==
  DayCall =>
    LET d == call.input
        r == call.result
    IN /\ Len(r) = Cardinality({d[i].date : i \in 1..Len(d)})
       /\ {r[i].date : i \in 1..Len(r)} = {d[i].date : i \in 1..Len(d)}
       /\ \A i, j \in 1..Len(r) : i < j => StrLess(r[i].date, r[j].date)
       /\ \A i \in 1..Len(r) :
            LET day == OnDate(d, r[i].date)
            IN /\ r[i].solarProduction = SumField(day, "solarProduction")
               /\ r[i].energyDemand = SumField(day, "energyDemand")
               /\ r[i].gridImport = SumField(day, "gridImport")
               /\ r[i].excessExport = SumField(day, "excessExport")
               /\ r[i].netEnergy = SumField(day, "solarProduction")
                                     - SumField(day, "energyDemand")

\* the later date is ingested first and returned last
DailySortedWitness ==
  /\ DayCall
  /\ Len(call.input) = 2
  /\ StrLess(call.input[2].date, call.input[1].date)
  /\ Len(call.result) = 2
  /\ call.result[1].date = call.input[2].date
  /\ call.result[2].solarProduction > 0

\* q is total / count
IsQuotient(q, total, count) == q.den > 0 /\ q.num * count = total * q.den

MonthCall == call.op = "aggregateByMonth"

\* the points of d of one month of one year
InMonth(d, year, month) ==
  SelectSeq(d, LAMBDA point : point.year = year /\ point.month = month)

\* C12: aggregateByMonth returns one element per distinct (year, month) of
\* the input, sorted by year and then by month as numbers, each with the
\* sums of its group, selfConsumptionPercentage = (solarProduction -
\* excessExport) / solarProduction * 100 and gridDependencyPercentage =
\* gridImport / energyDemand * 100 from these sums, a percentage being 0 when
\* its denominator is 0.
MonthlyOnePerMonthSortedSums ==
  MonthCall =>
    LET d == call.input
        r == call.result
    IN /\ Len(r) = Cardinality({<<d[i].year, d[i].month>> : i \in 1..Len(d)})
       /\ {<<r[i].year, r[i].month>> : i \in 1..Len(r)}
            = {<<d[i].year, d[i].month>> : i \in 1..Len(d)}
       /\ \A i, j \in 1..Len(r) :
            i < j => \/ r[i].year < r[j].year
                     \/ r[i].year = r[j].year /\ r[i].month < r[j].month
       /\ \A i \in 1..Len(r) :
            LET group == InMonth(d, r[i].year, r[i].month)
                solar == SumField(group, "solarProduction")
                demand == SumField(group, "energyDemand")
                import == SumField(group, "gridImport")
                export == SumField(group, "excessExport")
            IN /\ r[i].solarProduction = solar
               /\ r[i].energyDemand = demand
               /\ r[i].gridImport = import
               /\ r[i].excessExport = export
               /\ IF solar = 0 THEN r[i].selfConsumptionPercentage = Zero
                  ELSE IsQuotient(r[i].selfConsumptionPercentage,
                                  (solar - export) * 100, solar)
               /\ IF demand = 0 THEN r[i].gridDependencyPercentage = Zero
                  ELSE IsQuotient(r[i].gridDependencyPercentage,
                                  import * 100, demand)

\* October is ingested before February of the same year and returned after
\* it, with a percentage that is neither 0 nor 100
MonthlySortedWitness ==
  /\ MonthCall
  /\ Len(call.input) = 2
  /\ call.input[1].month = 10
  /\ call.input[2].month = 2
  /\ Len(call.result) = 2
  /\ call.result[1].month = 2
  /\ call.result[2].month = 10
  /\ call.result[1].selfConsumptionPercentage = ToRat(50)

\* the points of d of one hour
AtHour(d, hour) == SelectSeq(d, LAMBDA point : point.hour = hour)

\* C13: the entry of hour h of aggregateByHour holds, for each energy field,
\* the sum over the records with hour = h divided by the number of those
\* records; every field is 0 when no record has hour h; netEnergy is the
\* averaged solarProduction minus the averaged energyDemand.
HourlyAveragesPerHour ==
  HourCall =>
    \A i \in 1..Len(call.result) :
      LET e == call.result[i]
          at == AtHour(call.input, e.hour)
          n == Len(at)
      IN /\ n = 0 =>
              /\ e.solarProduction = Zero /\ e.energyDemand = Zero
              /\ e.gridImport = Zero /\ e.excessExport = Zero
              /\ e.netEnergy = Zero
         /\ n > 0 =>
              /\ IsQuotient(e.solarProduction, SumField(at, "solarProduction"), n)
              /\ IsQuotient(e.energyDemand, SumField(at, "energyDemand"), n)
              /\ IsQuotient(e.gridImport, SumField(at, "gridImport"), n)
              /\ IsQuotient(e.excessExport, SumField(at, "excessExport"), n)
         /\ e.netEnergy = RatSub(e.solarProduction, e.energyDemand)

\* one record at hour 10 and one at hour 20: each hour's average is its own
\* record, not half of it
HourlyAveragesWitness ==
  /\ HourCall
  /\ Len(call.input) = 2
  /\ call.input[1].hour = 10
  /\ call.input[2].hour = 20
  /\ call.input[1].energyDemand > 0
  /\ call.result[11].energyDemand = ToRat(call.input[1].energyDemand)
  /\ call.result[21].solarProduction = ToRat(call.input[2].solarProduction)

CostCall == call.op = "calculateCostSavings"

\* rate * total
Priced(rate, total) == RatMul(rate, ToRat(total))

\* C14: calculateCostSavings returns totalCostWithoutSolar = importRate *
\* sum(energyDemand), totalGridImportCost = importRate * sum(gridImport),
\* totalGridExportCredit = exportRate * sum(excessExport), totalSolarSavings
\* = importRate * sum(solarProduction - excessExport), totalCostWithSolar =
\* totalGridImportCost - totalGridExportCredit, totalSavings =
\* totalCostWithoutSolar - totalCostWithSolar and savingsPercentage =
\* totalSavings / totalCostWithoutSolar * 100, or 0 when totalCostWithoutSolar
\* is 0; the cost with solar may be negative and the percentage above 100.
CostSavingsFormulas ==
  CostCall =>
    LET d == call.input
        r == call.result
        importRate == call.args[1]
        exportRate == call.args[2]
    IN /\ r.totalCostWithoutSolar = Priced(importRate, SumField(d, "energyDemand"))
       /\ r.totalGridImportCost = Priced(importRate, SumField(d, "gridImport"))
       /\ r.totalGridExportCredit = Priced(exportRate, SumField(d, "excessExport"))
       /\ r.totalSolarSavings =
            Priced(importRate, SumField(d, "solarProduction")
                                 - SumField(d, "excessExport"))
       /\ r.totalCostWithSolar =
            RatSub(r.totalGridImportCost, r.totalGridExportCredit)
       /\ r.totalSavings = RatSub(r.totalCostWithoutSolar, r.totalCostWithSolar)
       /\ r.savingsPercentage =
            IF r.totalCostWithoutSolar = Zero THEN Zero
            ELSE RatMul(RatDiv(r.totalSavings, r.totalCostWithoutSolar), ToRat(100))

\* a net credit: the cost with solar is negative and the savings are more
\* than 100 percent of the cost without solar
NetCreditWitness ==
  /\ CostCall
  /\ Len(call.input) = 2
  /\ RatGt(Zero, call.result.totalCostWithSolar)
  /\ RatGt(call.result.totalGridImportCost, Zero)
  /\ RatGt(call.result.savingsPercentage, ToRat(100))

PeakCall == call.op = "calculatePeakShaving"

\* C15: for records derived from non-negative solarProduction and
\* energyDemand, storageCapacity >= 0 and maxDischargeRate >= 0,
\* calculatePeakShaving returns totalPeakDemandAfterShaving <=
\* totalPeakDemand, totalPeakReduction >= 0 and a peakReductionPercentage
\* from 0 to 100.
PeakShavingNeverRaisesPeak ==
  (PeakCall /\ call.args[1] >= 0 /\ call.args[2] >= 0) =>
    /\ ~call.threw
    /\ call.result.totalPeakDemandAfterShaving <= call.result.totalPeakDemand
    /\ call.result.totalPeakReduction >= 0
    /\ IsFinite(call.result.peakReductionPercentage)
    /\ ~RatGt(Zero, call.result.peakReductionPercentage)
    /\ ~RatGt(call.result.peakReductionPercentage, ToRat(100))

\* a storage of 1 kWh takes 1 kWh off an import of 2 kWh: the peak after
\* shaving is lower than the peak and not 0
PeakShavedWitness ==
  /\ PeakCall
  /\ call.args = <<1, 1>>
  /\ Len(call.input) = 1
  /\ call.input[1].gridImport = 2
  /\ call.result.totalPeakDemand = 2
  /\ call.result.totalPeakDemandAfterShaving = 1
  /\ call.result.peakReductionPercentage = ToRat(50)

StorageCall == call.op = "calculateStoragePotential"

\* every prefix of every date's walk: the sorted points of the date up to
\* one of them
StorageWalks(d) ==
  LET days == dailyData(d)
  IN UNION {{SubSeq(SortBy(CmpHour, days[i].points), 1, k) :
               k \in 1..Len(days[i].points)} : i \in 1..Len(days)}

\* the storage levels of the simulation, after each point of each date
StorageLevels(d) == {storageDay(walk).dailyStorageLevel : walk \in StorageWalks(d)}

\* C16: in calculateStoragePotential the simulated storage level is never
\* negative, 0 <= potentialAdditionalSelfConsumption <= min(totalExcessEnergy,
\* totalDeficitEnergy) with totalExcessEnergy = sum(excessExport) and
\* totalDeficitEnergy = sum(gridImport), and potentialSelfSufficiency is at
\* most 100.
StorageLevelAndGainBounded ==
  StorageCall =>
    LET d == call.input
        r == call.result
    IN /\ \A level \in StorageLevels(d) : level >= 0
       /\ r.totalExcessEnergy = SumField(d, "excessExport")
       /\ r.totalDeficitEnergy = SumField(d, "gridImport")
       /\ r.potentialAdditionalSelfConsumption >= 0
       /\ r.potentialAdditionalSelfConsumption <= r.totalExcessEnergy
       /\ r.potentialAdditionalSelfConsumption <= r.totalDeficitEnergy
       /\ ~RatGt(r.potentialSelfSufficiency, ToRat(100))

\* an export of 1 kWh is stored and then an import of 2 kWh empties the
\* storage: the gain is the whole excess, less than the deficit
StorageEmptiedWitness ==
  /\ StorageCall
  /\ Len(call.input) = 2
  /\ call.input[1].excessExport = 1
  /\ call.input[2].gridImport = 2
  /\ call.result.potentialAdditionalSelfConsumption = 1
  /\ 0 \in StorageLevels(call.input)
  /\ 1 \in StorageLevels(call.input)

\* no two points of d have the same date and the same hour
DistinctHours(d) ==
  \A i, j \in 1..Len(d) :
    (i # j /\ d[i].date = d[j].date) => d[i].hour # d[j].hour

\* on some date a point with an export has a smaller hour than a point with
\* an import
ExportBeforeImport(d) ==
  \E i, j \in 1..Len(d) :
    /\ d[i].date = d[j].date
    /\ d[i].excessExport > 0
    /\ d[j].gridImport > 0
    /\ d[i].hour < d[j].hour

\* C17: calculateStoragePotential returns potentialSelfSufficiency >=
\* currentSelfSufficiency, i.e. selfSufficiencyImprovement >= 0, for every
\* input; when the records of a date have distinct hours, the potential is
\* greater, and potentialAdditionalSelfConsumption > 0, exactly when on some
\* date a record with excessExport > 0 has a smaller hour than a record with
\* gridImport > 0.
StorageImprovesAfterExport ==
  StorageCall =>
    LET d == call.input
        r == call.result
    IN /\ ~RatGt(r.currentSelfSufficiency, r.potentialSelfSufficiency)
       /\ ~RatGt(Zero, r.selfSufficiencyImprovement)
       /\ r.selfSufficiencyImprovement
            = RatSub(r.potentialSelfSufficiency, r.currentSelfSufficiency)
       /\ DistinctHours(d) =>
            /\ (r.potentialAdditionalSelfConsumption > 0) <=> ExportBeforeImport(d)
            /\ RatGt(r.potentialSelfSufficiency, r.currentSelfSufficiency)
                 <=> ExportBeforeImport(d)

\* an export at hour 10 and an import at hour 20 of the same date: the
\* potential self-sufficiency is above the current one
StorageImprovesWitness ==
  /\ StorageCall
  /\ Len(call.input) = 2
  /\ call.input[1].hour = 10
  /\ call.input[2].hour = 20
  /\ ExportBeforeImport(call.input)
  /\ RatGt(call.result.selfSufficiencyImprovement, Zero)
  /\ RatGt(ToRat(100), call.result.potentialSelfSufficiency)

RECURSIVE SumOverDates(_, _, _)
\* the sum, over the dates S, of field f of calculateStoragePotential on the
\* points of d of the date alone
SumOverDates(S, d, f) ==
  IF S = {} THEN 0
  ELSE LET date == CHOOSE x \in S : TRUE
       IN calculateStoragePotential(OnDate(d, date))[f]
            + SumOverDates(S \ {date}, d, f)

DatesOf(d) == {d[i].date : i \in 1..Len(d)}

\* C18: calculateStoragePotential simulates each date on its own, from an
\* empty storage: potentialAdditionalSelfConsumption, totalExcessEnergy and
\* totalDeficitEnergy of a collection are the sums of the values the
\* function returns on the records of each date alone.
StorageDatesIndependent ==
  StorageCall =>
    LET d == call.input
        r == call.result
    IN /\ r.potentialAdditionalSelfConsumption
            = SumOverDates(DatesOf(d), d, "potentialAdditionalSelfConsumption")
       /\ r.totalExcessEnergy = SumOverDates(DatesOf(d), d, "totalExcessEnergy")
       /\ r.totalDeficitEnergy = SumOverDates(DatesOf(d), d, "totalDeficitEnergy")

\* an export on one date and an import on a later date: nothing is taken
\* from storage
NoCarryOverWitness ==
  /\ StorageCall
  /\ Len(call.input) = 2
  /\ call.input[1].excessExport > 0
  /\ call.input[2].gridImport > 0
  /\ StrLess(call.input[1].date, call.input[2].date)
  /\ call.result.potentialAdditionalSelfConsumption = 0

\* C19: optimalStorageCapacity of calculateStoragePotential is the greatest
\* storage level reached on any date, measured after each record; it is not
\* the sum over the dates, and it is 0 when no record has excessExport > 0.
OptimalCapacityIsGreatestLevel ==
  StorageCall =>
    LET d == call.input
        r == call.result
    IN /\ r.optimalStorageCapacity = Greatest(StorageLevels(d))
       /\ (\A i \in 1..Len(d) : ~(d[i].excessExport > 0))
            => r.optimalStorageCapacity = 0

\* two dates that need a storage of 1 kWh and of 2 kWh: the capacity is 2
TwoDatesCapacityWitness ==
  /\ StorageCall
  /\ Len(call.input) = 2
  /\ call.input[1].date # call.input[2].date
  /\ call.input[1].excessExport = 1
  /\ call.input[2].excessExport = 2
  /\ call.result.optimalStorageCapacity = 2

\* the permutations of 1..n
Reorderings(n) ==
  {f \in [1..n -> 1..n] : \A i, j \in 1..n : f[i] = f[j] => i = j}

\* C20: calculateStoragePotential does not depend on the order of its
\* input: when no two records share date and hour, every permutation of the
\* collection gives the same result.
StorageOrderIndependent ==
  (StorageCall /\ DistinctHours(call.input)) =>
    \A f \in Reorderings(Len(call.input)) :
      calculateStoragePotential([i \in 1..Len(call.input) |-> call.input[f[i]]])
        = call.result

\* the import at hour 20 comes first in the input and the export at hour 10
\* second: the walk still stores before it discharges
StorageResortedWitness ==
  /\ StorageCall
  /\ Len(call.input) = 2
  /\ call.input[1].hour = 20
  /\ call.input[1].gridImport > 0
  /\ call.input[2].hour = 10
  /\ call.input[2].excessExport > 0
  /\ call.input[1].date = call.input[2].date
  /\ call.result.potentialAdditionalSelfConsumption > 0

\* the greatest energyDemand of the date's points
DemandPeak(d, date) ==
  Greatest({OnDate(d, date)[i].energyDemand : i \in 1..Len(OnDate(d, date))})

\* the greatest gridImport of the date's points
ImportPeak(d, date) ==
  Greatest({OnDate(d, date)[i].gridImport : i \in 1..Len(OnDate(d, date))})

\* the date's points after the shaving simulation
Shaved(d, date, storageCapacity, maxDischargeRate) ==
  shaveDay(SortBy(CmpHour, OnDate(d, date)), DemandPeak(d, date),
           storageCapacity, maxDischargeRate).modifiedDemand

\* the greatest gridImport of the date's points after shaving
ShavedPeak(d, date, storageCapacity, maxDischargeRate) ==
  LET shaved == Shaved(d, date, storageCapacity, maxDischargeRate)
  IN Greatest({shaved[i].gridImport : i \in 1..Len(shaved)})

RECURSIVE SumDemandPeaks(_, _)
SumDemandPeaks(S, d) ==
  IF S = {} THEN 0
  ELSE LET date == CHOOSE x \in S : TRUE
       IN DemandPeak(d, date) + SumDemandPeaks(S \ {date}, d)

RECURSIVE SumImportPeaks(_, _)
SumImportPeaks(S, d) ==
  IF S = {} THEN 0
  ELSE LET date == CHOOSE x \in S : TRUE
       IN ImportPeak(d, date) + SumImportPeaks(S \ {date}, d)

RECURSIVE SumShavedPeaks(_, _, _, _)
SumShavedPeaks(S, d, storageCapacity, maxDischargeRate) ==
  IF S = {} THEN 0
  ELSE LET date == CHOOSE x \in S : TRUE
       IN ShavedPeak(d, date, storageCapacity, maxDischargeRate)
            + SumShavedPeaks(S \ {date}, d, storageCapacity, maxDischargeRate)

\* C21: in calculatePeakShaving the peak of a date before shaving is its
\* greatest energyDemand and the peak after shaving its greatest gridImport
\* after shaving; the totals are the sums over the dates and
\* totalPeakReduction = totalPeakDemand - totalPeakDemandAfterShaving, so
\* with storageCapacity = 0 the reduction is the sum over the dates of
\* (greatest energyDemand - greatest gridImport).
PeakTotalsDemandAgainstImport ==
  PeakCall =>
    LET d == call.input
        r == call.result
    IN /\ r.totalPeakDemand = SumDemandPeaks(DatesOf(d), d)
       /\ r.totalPeakDemandAfterShaving
            = SumShavedPeaks(DatesOf(d), d, call.args[1], call.args[2])
       /\ r.totalPeakReduction
            = r.totalPeakDemand - r.totalPeakDemandAfterShaving
       /\ call.args[1] = 0 =>
            r.totalPeakReduction
              = SumDemandPeaks(DatesOf(d), d) - SumImportPeaks(DatesOf(d), d)

\* without storage, a date whose greatest demand is 2 kWh and whose
\* greatest import is 1 kWh: a reduction of 1 kWh that no discharge made
ReductionWithoutStorageWitness ==
  /\ PeakCall
  /\ call.args[1] = 0
  /\ Len(call.input) = 2
  /\ call.input[1].date = call.input[2].date
  /\ call.result.totalPeakDemand = 2
  /\ call.result.totalPeakDemandAfterShaving = 1
  /\ call.result.totalPeakReduction = 1

\* C22: no core operation mutates its input: after filterData,
\* aggregateByDay, aggregateByMonth, aggregateByHour, calculateSummary,
\* calculateStoragePotential or calculatePeakShaving returns, the collection
\* has the same records in the same order with the same field values; the
\* reduced gridImport and the sorting by hour reach copies only.
InputIsNotMutated ==
  ~Idle => data = call.input

\* a call of calculatePeakShaving that sorts the date's two points, given
\* latest first, and lowers an import: the collection is as it was
ShavedCopyWitness ==
  /\ PeakCall
  /\ call.args = <<1, 1>>
  /\ Len(call.input) = 2
  /\ call.input[1].date = call.input[2].date
  /\ call.input[1].hour = 20
  /\ call.input[2].hour = 10
  /\ call.result.totalPeakDemandAfterShaving
       < ImportPeak(call.input, call.input[1].date)
  /\ data = call.input

\* the storage level of the date's simulation after k of the points S
LevelAfter(S, peakDemand, storageCapacity, maxDischargeRate, k) ==
  shaveDay(SubSeq(S, 1, k), peakDemand, storageCapacity,
           maxDischargeRate).storageLevel

\* C23: in each date's peak-shaving simulation the storage level starts at
\* storageCapacity, never increases and stays within 0..storageCapacity; a
\* record is discharged against only if its energyDemand is strictly above
\* 0.7 of the date's peak demand and the level is positive; the discharge is
\* min(energyDemand - (solarProduction - excessExport), maxDischargeRate,
\* level) and is applied only when positive; the record's gridImport after
\* shaving is max(0, gridImport - discharge), and a record not discharged
\* against keeps its gridImport.
ShavingSimulationSteps ==
  PeakCall =>
    \A date \in DatesOf(call.input) :
      LET S == SortBy(CmpHour, OnDate(call.input, date))
          peak == DemandPeak(call.input, date)
          capacity == call.args[1]
          rate == call.args[2]
          shaved == Shaved(call.input, date, capacity, rate)
      IN /\ LevelAfter(S, peak, capacity, rate, 0) = capacity
         /\ \A k \in 1..Len(S) :
              LET level == LevelAfter(S, peak, capacity, rate, k - 1)
                  after == LevelAfter(S, peak, capacity, rate, k)
                  point == S[k]
                  discharge ==
                    Min(Min(point.energyDemand
                              - (point.solarProduction - point.excessExport),
                            rate), level)
                  high == 10 * point.energyDemand > 7 * peak /\ level > 0
              IN /\ after <= level
                 /\ after >= 0
                 /\ after <= capacity
                 /\ IF high /\ discharge > 0
                    THEN /\ after = level - discharge
                         /\ shaved[k].gridImport
                              = Max(0, point.gridImport - discharge)
                    ELSE /\ after = level
                         /\ shaved[k].gridImport = point.gridImport

\* a date with a demand of 10 kWh and one of 7 kWh, both imported, and a
\* storage of 5 kWh: the peak is shaved by 2 kWh, the demand of exactly 0.7
\* of the peak is not
ThresholdWitness ==
  /\ PeakCall
  /\ call.args = <<5, 2>>
  /\ Len(call.input) = 2
  /\ call.input[1].date = call.input[2].date
  /\ call.input[1].gridImport = 10
  /\ call.input[2].gridImport = 7
  /\ call.input[1].hour < call.input[2].hour
  /\ Shaved(call.input, call.input[1].date, 5, 2)[1].gridImport = 8
  /\ Shaved(call.input, call.input[1].date, 5, 2)[2].gridImport = 7

\* a change of a selection of the page's panel, or its reset
FilterChange == handleDayTypeChange \/ handleHourRangeChange \/ resetFilters

\* C24: after every load and every filter change, summary is
\* calculateSummary(filteredData); a load makes filteredData the whole of
\* the derived rawData; a filter change with the options f leaves rawData
\* as it was and makes filteredData filterData(rawData, f), whatever the
\* filter before it had left.
PageShowsFilteredRawData ==
  [][/\ summary' = calculateSummary(filteredData')
     /\ processData =>
          /\ filteredData' = rawData'
          /\ \A i \in 1..Len(rawData') :
               rawData'[i] = calculateDerivedMetrics(rawData'[i])
     /\ FilterChange =>
          /\ rawData' = rawData
          /\ filteredData' = filterData(rawData, passed')]_vars

\* a weekend and a weekday point are loaded and the panel has passed
\* weekdaysOnly: the page keeps both points and shows the weekday point and
\* its summary
FilterAfterFilterWitness ==
  /\ Len(rawData) = 2
  /\ rawData[1].isWeekend
  /\ ~rawData[2].isWeekend
  /\ Mounted
  /\ passed # NotCalled
  /\ passed # <<>>
  /\ passed.weekdaysOnly
  /\ filteredData = <<rawData[2]>>
  /\ summary = calculateSummary(<<rawData[2]>>)

\* C25: the FilterOptions a change of a selection passes to onFilterChange
\* are those of the selections including the change just made: whenever the
\* last call of onFilterChange came from a selection, its argument is
\* applyFilters of the selections the panel shows.
PassedFiltersAreTheSelections ==
  (Mounted /\ passed # NotCalled /\ passed # <<>>) =>
    passed = applyFilters(panel)

\* the day type 'weekdays' is selected, and the call made for it passed
\* weekdaysOnly = false
StaleFiltersWitness ==
  /\ Mounted
  /\ panel = setDayType(InitialPanel("mockOnFilterChange"), "weekdays")
  /\ passed = applyFilters(InitialPanel("mockOnFilterChange"))
  /\ ~passed.weekdaysOnly

WithoutEmpty(fs) ==
  [k \in {k \in DOMAIN fs :
            k \in {"weekdaysOnly", "weekendsOnly"} \/ fs[k] # <<>>} |-> fs[k]]

\* C27: in filterData an empty months or hours list, and an empty-string
\* startDate or endDate, constrains nothing, exactly like the option left
\* out: the result is that of the call without the empty options.
EmptyOptionsAreAbsent ==
  FilterCall => call.result = filterData(call.input, WithoutEmpty(call.args))

\* a call with all four of startDate '', endDate '', months [] and hours []
\* and weekendsOnly set, which keeps a weekend point and drops a weekday one
EmptyOptionsWitness ==
  /\ FilterCall
  /\ {"startDate", "endDate", "months", "hours"} \subseteq DOMAIN call.args
  /\ call.args.startDate = EmptyString
  /\ call.args.endDate = EmptyString
  /\ call.args.months = <<>>
  /\ call.args.hours = <<>>
  /\ TruthyFlag(call.args, "weekendsOnly")
  /\ Len(call.input) = 2
  /\ Len(call.result) = 1

\* storage capacities to compare a call's capacity with
SmallerCapacities == {0, 1, 3}

\* C28: calculatePeakShaving is monotone in the storage capacity: for the
\* same records and maxDischargeRate and capacities c1 <= c2, every
\* record's gridImport after shaving with c2 is at most that with c1, so
\* totalPeakDemandAfterShaving with c2 is at most, and totalPeakReduction
\* at least, that with c1.
PeakShavingMonotoneInCapacity ==
  (PeakCall /\ ~call.threw) =>
    \A c1 \in SmallerCapacities :
      c1 <= call.args[1] =>
        LET c2 == call.args[1]
            rate == call.args[2]
            less == calculatePeakShaving(call.input, c1, rate)
        IN /\ \A date \in DatesOf(call.input) :
                \A k \in 1..Len(OnDate(call.input, date)) :
                  Shaved(call.input, date, c2, rate)[k].gridImport
                    <= Shaved(call.input, date, c1, rate)[k].gridImport
           /\ call.result.totalPeakDemandAfterShaving
                <= less.totalPeakDemandAfterShaving
           /\ call.result.totalPeakReduction >= less.totalPeakReduction

\* two imports of MaxVal kWh on one date at a rate of 2 kWh: 5 kWh of
\* storage take 2 kWh off both, 1 kWh takes 1 kWh off the first only, and
\* the shaved peak is MaxVal - 2 against MaxVal
MoreStorageWitness ==
  /\ PeakCall
  /\ call.args = <<5, 2>>
  /\ Len(call.input) = 2
  /\ call.input[1].date = call.input[2].date
  /\ call.input[1].gridImport = MaxVal
  /\ call.input[2].gridImport = MaxVal
  /\ call.result.totalPeakDemandAfterShaving = MaxVal - 2
  /\ calculatePeakShaving(call.input, 1, 2).totalPeakDemandAfterShaving = MaxVal

\* C29: for derived records and every pair of rates, calculateCostSavings
\* returns totalSavings = totalSolarSavings + totalGridExportCredit.
SavingsAreSolarSavingsPlusCredit ==
  CostCall =>
    call.result.totalSavings
      = RatAdd(call.result.totalSolarSavings, call.result.totalGridExportCredit)

\* an exporting and an importing record at rates that are not 0: both the
\* solar savings and the export credit are part of the savings
SavingsOfBothKindsWitness ==
  /\ CostCall
  /\ Len(call.input) = 2
  /\ call.input[1].excessExport > 0
  /\ call.input[1].energyDemand > 0
  /\ call.input[2].gridImport > 0
  /\ call.input[2].solarProduction > 0
  /\ RatGt(call.result.totalSolarSavings, Zero)
  /\ RatGt(call.result.totalGridExportCredit, Zero)
  /\ RatGt(call.result.totalSavings, call.result.totalSolarSavings)

EmissionsCall == call.op = "calculateEmissionsReduction"

\* C30: for derived records whose energyDemand sums to more than 0,
\* calculateSelfSufficiency returns selfSufficiencyPercentage +
\* gridDependencyPercentage = 100, and calculateEmissionsReduction returns,
\* for every positive gridEmissionFactor, a reductionPercentage equal to
\* that selfSufficiencyPercentage.
SharesOfDemandAddUp ==
  /\ (SelfSufficiencyCall /\ SumField(call.input, "energyDemand") > 0) =>
       RatAdd(call.result.selfSufficiencyPercentage,
              call.result.gridDependencyPercentage) = ToRat(100)
  /\ (/\ EmissionsCall
      /\ SumField(call.input, "energyDemand") > 0
      /\ RatGt(call.args[1], Zero)) =>
       call.result.reductionPercentage
         = calculateSelfSufficiency(call.input).selfSufficiencyPercentage

\* one record producing 1 kWh of a demand of 2 kWh and one exporting: at the
\* factor 0.8 the emissions are reduced by the self-sufficiency, which is
\* neither 0 nor 100 percent
ReductionIsSelfSufficiencyWitness ==
  /\ EmissionsCall
  /\ call.args = <<Rat(8, 10)>>
  /\ Len(call.input) = 2
  /\ call.input[1].gridImport = 1
  /\ call.input[1].solarProduction = 1
  /\ call.input[2].excessExport > 0
  /\ call.input[2].energyDemand = 0
  /\ call.result.reductionPercentage = ToRat(50)
  /\ calculateSelfSufficiency(call.input).gridDependencyPercentage = ToRat(50)

====
